---- MODULE Spec2Model ----
(***************************************************************************)
(* Verification model of the gene-assembler repository: the Overlap-       *)
(* Layout-Consensus engine (runOlc, two copies of the library) and the de  *)
(* Bruijn engine (runDebruijn).  Nucleotide strings are sequences of       *)
(* one-character strings; read identifiers read0, read1, ... are the       *)
(* positions 1, 2, ... of the reads list.                                  *)
(***************************************************************************)
EXTENDS Integers, Sequences, FiniteSets, TLC

-----------------------------------------------------------------------------
(* Bounds of the model *)

\* most reads in an input list
MaxReads == 2
\* longest read drawn over Alphabet
MaxReadLen == 3
\* most k-mers of a drawn k-mer list (SpecGraph, SpecEuler)
MaxKmers == 4
\* most add calls on one Bloom filter, and its largest size, in SpecBloom
MaxAdds == 3
MaxBloomSize == 4
\* SpecLayout: most reads and largest score of a drawn overlap map
MaxLayoutReads == 3
MaxScore == 2

\* the alphabet the exhaustive inputs are drawn over
Alphabet == {"A", "C"}
\* the alphabet of the graphs given directly to buildDebruijnGraph
NodeAlphabet == {"A", "C", "G"}

-----------------------------------------------------------------------------
(* JavaScript values *)

\* the value of a missing property (reads[undefined], graph[absent])
Undefined == <<"undefined">>
\* what string concatenation turns undefined into
UndefinedText == <<"u", "n", "d", "e", "f", "i", "n", "e", "d">>

Max2(a, b) == IF a >= b THEN a ELSE b
Min2(a, b) == IF a <= b THEN a ELSE b

\* String.prototype.substring(from): the start is clamped into [0, length]
SubstringFrom(s, from) == SubSeq(s, Min2(Max2(from, 0), Len(s)) + 1, Len(s))

\* the last element of a non-empty sequence
Last(s) == s[Len(s)]

\* Array.prototype.reverse
Reverse(s) == [i \in 1..Len(s) |-> s[Len(s) + 1 - i]]

\* the elements of a sequence
Range(s) == {s[i] : i \in 1..Len(s)}

RECURSIVE Flatten(_)
\* the concatenation of a sequence of sequences
Flatten(ss) == IF ss = <<>> THEN <<>> ELSE Head(ss) \o Flatten(Tail(ss))

\* Number.prototype.toString of a non-negative integer
RECURSIVE NumToString(_)
NumToString(n) ==
    LET d == <<"0", "1", "2", "3", "4", "5", "6", "7", "8", "9">>[(n % 10) + 1]
    IN  IF n < 10 THEN <<d>> ELSE Append(NumToString(n \div 10), d)

\* String.prototype.charCodeAt for the characters the model uses
CharCode(c) ==
    CASE c = "A" -> 65 [] c = "C" -> 67 [] c = "G" -> 71 [] c = "T" -> 84
      [] c = "0" -> 48 [] c = "1" -> 49 [] c = "2" -> 50 [] c = "3" -> 51
      [] c = "4" -> 52 [] c = "5" -> 53 [] c = "6" -> 54 [] c = "7" -> 55
      [] c = "8" -> 56 [] c = "9" -> 57

-----------------------------------------------------------------------------
(* simpleHash: a 32-bit integer is kept as <<high 16 bits, low 16 bits>> *)

Half == 65536

\* one round "hash = ((hash << 5) - hash) + char; hash = hash & hash" on the
\* two's-complement bit pattern of hash
HashRound(h, c) ==
    LET lo == 31 * h[2] + c
        hi == 31 * h[1] + (lo \div Half)
    IN  <<hi % Half, lo % Half>>

RECURSIVE HashFold(_, _)
HashFold(h, str) ==
    IF str = <<>> THEN h ELSE HashFold(HashRound(h, CharCode(Head(str))), Tail(str))

\* Math.abs of the signed 32-bit value with bit pattern h (at most 2^31)
HashAbs(h) ==
    IF h[1] < 32768 THEN h
    ELSE IF h[2] = 0 THEN <<Half - h[1], 0>>
    ELSE <<Half - 1 - h[1], Half - h[2]>>

simpleHash(str) == HashAbs(HashFold(<<0, 0>>, str))

\* hash % size for size > 0
HashMod(h, size) == ((h[1] % size) * (Half % size) + h[2]) % size

\* hash1 < hash2
HashLess(h1, h2) == h1[1] < h2[1] \/ (h1[1] = h2[1] /\ h1[2] < h2[2])

-----------------------------------------------------------------------------
(* Counter (dbg.ts): a Map from key to count, kept in insertion order *)

CounterHas(c, key) == \E i \in 1..Len(c) : c[i].key = key

CounterGet(c, key) ==
    IF CounterHas(c, key)
    THEN (CHOOSE e \in Range(c) : e.key = key).count
    ELSE 0

CounterSet(c, key, n) ==
    IF CounterHas(c, key)
    THEN [i \in 1..Len(c) |-> IF c[i].key = key THEN [key |-> key, count |-> n] ELSE c[i]]
    ELSE Append(c, [key |-> key, count |-> n])

CounterIncrement(c, key) == CounterSet(c, key, CounterGet(c, key) + 1)

CounterDecrement(c, key) == CounterSet(c, key, Max2(0, CounterGet(c, key) - 1))

CounterKeys(c) == [i \in 1..Len(c) |-> c[i].key]

-----------------------------------------------------------------------------
(* BloomFilterImpl: bits is the set of positions holding 1 *)

BloomNew(size, hash_count) == [size |-> size, hash_count |-> hash_count, bits |-> {}]

BloomHashes(b, item) ==
    [i \in 1..b.hash_count |-> HashMod(simpleHash(item \o NumToString(i - 1)), b.size)]

\* a filter whose add sets the bit of the first hash function only
BloomAddFirstOnly(b, item) ==
    [b EXCEPT !.bits = @ \cup {BloomHashes(b, item)[1]}]

BloomAdd(b, item) == [b EXCEPT !.bits = @ \cup Range(BloomHashes(b, item))]

BloomCheck(b, item) == \A pos \in Range(BloomHashes(b, item)) : pos \in b.bits

-----------------------------------------------------------------------------
(* de Bruijn methods (dbg.ts) *)

\* program defaults substituted by "||" in runDebruijn
DefaultK == 31
DefaultThreshold == 2
\* hash_count of the filter filterErrors builds
BloomHashCount == 4

\* the length-k substrings of one read, in position order
KmersOf(seq, k) ==
    [i \in 1..Max2(Len(seq) - k + 1, 0) |-> SubSeq(seq, i, i + k - 1)]

RECURSIVE IncrementAll(_, _)
IncrementAll(c, keys) ==
    IF keys = <<>> THEN c ELSE IncrementAll(CounterIncrement(c, Head(keys)), Tail(keys))

countKmers(rds, k) ==
    IncrementAll(<<>>, Flatten([r \in 1..Len(rds) |-> KmersOf(rds[r], k)]))

RECURSIVE BloomAddAll(_, _)
BloomAddAll(b, items) ==
    IF items = <<>> THEN b ELSE BloomAddAll(BloomAdd(b, Head(items)), Tail(items))

\* a filter that keeps only the k-mers counted more often than the threshold
PassingKmersAbove(counts, threshold) ==
    CounterKeys(SelectSeq(counts, LAMBDA e : e.count > threshold))

\* the k-mers whose count reaches the threshold, in Map order
PassingKmers(counts, threshold) ==
    CounterKeys(SelectSeq(counts, LAMBDA e : e.count >= threshold))

\* filterErrors called without a filter: a Set (insertion ordered) of k-mers
filterErrors(counts, method, threshold) ==
    IF method = "threshold" THEN PassingKmers(counts, threshold)
    ELSE IF method = "bloom" THEN
        LET bloom == BloomAddAll(BloomNew(2 * Len(counts), BloomHashCount),
                                 PassingKmers(counts, threshold))
        IN  SelectSeq(CounterKeys(counts), LAMBDA kmer : BloomCheck(bloom, kmer))
    ELSE CounterKeys(counts)

\* a DebruijnGraph object: <<[node, succs], ...>> in key insertion order
GraphHas(g, u) == \E i \in 1..Len(g) : g[i].node = u

GraphGet(g, u) ==
    IF GraphHas(g, u) THEN (CHOOSE e \in Range(g) : e.node = u).succs ELSE Undefined

GraphSet(g, u, vs) ==
    IF GraphHas(g, u)
    THEN [i \in 1..Len(g) |-> IF g[i].node = u THEN [node |-> u, succs |-> vs] ELSE g[i]]
    ELSE Append(g, [node |-> u, succs |-> vs])

GraphKeys(g) == [i \in 1..Len(g) |-> g[i].node]

\* a loop body that counts the k-mer's prefix on both counters
AddKmerSuffixUncounted(G, kmer) ==
    LET prefix == SubSeq(kmer, 1, Len(kmer) - 1)
        old    == IF GraphHas(G.graph, prefix) THEN GraphGet(G.graph, prefix) ELSE <<>>
    IN  [graph     |-> GraphSet(G.graph, prefix, Append(old, SubstringFrom(kmer, 1))),
         indegree  |-> CounterIncrement(G.indegree, prefix),
         outdegree |-> CounterIncrement(G.outdegree, prefix)]

\* the body of buildDebruijnGraph's loop for one k-mer
AddKmer(G, kmer) ==
    LET prefix == SubSeq(kmer, 1, Len(kmer) - 1)
        suffix == SubstringFrom(kmer, 1)
        old    == IF GraphHas(G.graph, prefix) THEN GraphGet(G.graph, prefix) ELSE <<>>
    IN  [graph     |-> GraphSet(G.graph, prefix, Append(old, suffix)),
         indegree  |-> CounterIncrement(G.indegree, suffix),
         outdegree |-> CounterIncrement(G.outdegree, prefix)]

RECURSIVE AddKmers(_, _)
AddKmers(G, kmers) ==
    IF kmers = <<>> THEN G ELSE AddKmers(AddKmer(G, Head(kmers)), Tail(kmers))

buildDebruijnGraph(kmers) ==
    AddKmers([graph |-> <<>>, indegree |-> <<>>, outdegree |-> <<>>], kmers)

\* the nodes simplifyTips collects before it removes anything
Tips(G) ==
    SelectSeq(GraphKeys(G.graph),
              LAMBDA node : /\ CounterGet(G.outdegree, node) = 1
                            /\ CounterGet(G.indegree, node) = 0)

\* the second loop's body for one tip
RemoveTip(G, tip) ==
    LET succs == GraphGet(G.graph, tip)
        next  == IF succs = <<>> THEN Undefined ELSE succs[1]
    IN  [graph     |-> GraphSet(G.graph, tip, SelectSeq(succs, LAMBDA n : n # next)),
         indegree  |-> CounterDecrement(G.indegree, next),
         outdegree |-> CounterDecrement(G.outdegree, tip)]

RECURSIVE RemoveTips(_, _)
RemoveTips(G, tips) ==
    IF tips = <<>> THEN G ELSE RemoveTips(RemoveTip(G, Head(tips)), Tail(tips))

\* a simplification that repeats the pass until no tip is left
RECURSIVE simplifyTipsToFixpoint(_)
simplifyTipsToFixpoint(G) ==
    IF Tips(G) = <<>> THEN G ELSE simplifyTipsToFixpoint(RemoveTips(G, Tips(G)))

simplifyTips(G) == RemoveTips(G, Tips(G))

\* findEulerianPath's start node for a graph with at least one key
StartNode(g, indegree, outdegree) ==
    LET plus == SelectSeq(GraphKeys(g),
                          LAMBDA node : CounterGet(outdegree, node)
                                          - CounterGet(indegree, node) = 1)
    IN  IF plus # <<>> THEN plus[1] ELSE GraphKeys(g)[1]

\* path[i][path[i].length - 1]: undefined for an empty node, and the
\* concatenation writes it out
LastCharText(node) == IF node = <<>> THEN UndefinedText ELSE <<Last(node)>>

pathToSequence(p) ==
    IF p = <<>> THEN <<>>
    ELSE p[1] \o Flatten([i \in 1..(Len(p) - 1) |-> LastCharText(p[i + 1])])

\* a detection that takes every key with a successor
BranchNodesAnySuccessor(g) == CounterKeys(SelectSeq(
    [i \in 1..Len(g) |-> [key |-> g[i].node, count |-> Len(g[i].succs)]],
    LAMBDA e : e.count > 0))

\* the branch nodes runDebruijn detects: keys with more than one successor
BranchNodes(g) == CounterKeys(SelectSeq(
    [i \in 1..Len(g) |-> [key |-> g[i].node, count |-> Len(g[i].succs)]],
    LAMBDA e : e.count > 1))

\* altGraph: a copy of the graph with the first two successors of node swapped
SwapFirstTwo(g, node) ==
    LET vs == GraphGet(g, node)
    IN  GraphSet(g, node, <<vs[2], vs[1]>> \o SubSeq(vs, 3, Len(vs)))

-----------------------------------------------------------------------------
(* Overlap implementations (OLC library; "Lib" is src/unnamed/part_001,     *)
(* "Dbg" is the copy that follows runDebruijn in src/src/dbg.ts).  An        *)
(* Overlaps object is [den, es]: es lists the entries <<[a, b, score]>> in   *)
(* key insertion order, key "a,b"; the score of an entry is score / den      *)
(* (den is 1 except for the MinHash similarity ratio).                       *)

\* program defaults substituted by "||" in runOlc
DefaultOverlapK == 15
DefaultNumHashes == 100
DefaultSwMatch == 2
DefaultNwMatch == 1
DefaultOverlapThreshold == 10
DefaultMinOverlap == 5
\* the substring length overlapMinhash sketches
MinhashWindow == 5
\* overlapSw of the Dbg copy keeps alignment lengths above this
SwKeepAbove == 5
\* layoutSuperstring of the Dbg copy enumerates up to this many reads
SuperstringCutoff == 8
\* consensusPoa: shortest run searched for, and shortest run spliced
PoaSearchRun == 10
PoaSpliceAbove == 5

OvHas(es, a, b) == \E i \in 1..Len(es) : es[i].a = a /\ es[i].b = b

\* overlaps[`${a},${b}`] where only its truth value and number matter: an
\* absent key reads as 0, which "||" treats like undefined
OvRaw(es, a, b) ==
    IF OvHas(es, a, b)
    THEN (CHOOSE e \in Range(es) : e.a = a /\ e.b = b).score
    ELSE 0

\* x || y for a number x (an absent parameter is written 0)
OrElse(x, y) == IF x = 0 THEN y ELSE x

\* overlaps[`${a},${b}`] || overlaps[`${b},${a}`] || 0
OvLookup(es, a, b) == OrElse(OvRaw(es, a, b), OrElse(OvRaw(es, b, a), 0))

\* overlaps[key] = score
OvSet(es, a, b, score) ==
    IF OvHas(es, a, b)
    THEN [i \in 1..Len(es) |->
            IF es[i].a = a /\ es[i].b = b THEN [a |-> a, b |-> b, score |-> score]
            ELSE es[i]]
    ELSE Append(es, [a |-> a, b |-> b, score |-> score])

\* overlapKmer's index: <<[kmer, occs]>> in Map order, occs the read ids
RECURSIVE IndexAll(_, _)
IndexAll(index, occs) ==
    IF occs = <<>> THEN index
    ELSE LET o == Head(occs)
             at == {i \in 1..Len(index) : index[i].kmer = o.kmer}
         IN  IndexAll(IF at = {} THEN Append(index, [kmer |-> o.kmer, occs |-> <<o.rid>>])
                      ELSE [i \in 1..Len(index) |->
                              IF i \in at THEN [index[i] EXCEPT !.occs = Append(@, o.rid)]
                              ELSE index[i]],
                      Tail(occs))

KmerIndex(rds, k) ==
    IndexAll(<<>>, Flatten([r \in 1..Len(rds) |->
        [i \in 1..Len(KmersOf(rds[r], k)) |-> [kmer |-> KmersOf(rds[r], k)[i], rid |-> r]]]))

\* the (i, j) pairs with i < j of one occurrence list, in loop order
OccPairs(occs) ==
    Flatten([i \in 1..Len(occs) |->
        [d \in 1..(Len(occs) - i) |-> <<occs[i], occs[i + d]>>]])

RECURSIVE RecordPairs(_, _, _)
RecordPairs(es, pairs, k) ==
    IF pairs = <<>> THEN es
    ELSE LET r1 == Head(pairs)[1]
             r2 == Head(pairs)[2]
         IN  RecordPairs(IF r1 # r2
                         THEN OvSet(es, r1, r2, Max2(OrElse(OvRaw(es, r1, r2), 0), k))
                         ELSE es,
                         Tail(pairs), k)

RECURSIVE RecordEveryPair(_, _, _)
\* the recording loop without the test that the two reads differ
RecordEveryPair(es, pairs, k) ==
    IF pairs = <<>> THEN es
    ELSE RecordEveryPair(OvSet(es, Head(pairs)[1], Head(pairs)[2], k), Tail(pairs), k)

\* a pairing loop that also pairs two occurrences inside one read
overlapKmerSelfPairs(rds, k) ==
    [den |-> 1,
     es  |-> RecordEveryPair(<<>>,
                 Flatten([x \in 1..Len(KmerIndex(rds, k)) |->
                             OccPairs(KmerIndex(rds, k)[x].occs)]), k)]

\* a pairing loop that records the length of the shorter read instead of k
overlapKmerShorterLen(rds, k) ==
    LET es == RecordPairs(<<>>,
                  Flatten([x \in 1..Len(KmerIndex(rds, k)) |-> OccPairs(KmerIndex(rds, k)[x].occs)]), k)
    IN  [den |-> 1, es |-> [i \in 1..Len(es) |->
            [es[i] EXCEPT !.score = Min2(Len(rds[es[i].a]), Len(rds[es[i].b]))]]]

overlapKmer(rds, k) ==
    LET index == KmerIndex(rds, k)
    IN  [den |-> 1,
         es  |-> RecordPairs(<<>>,
                     Flatten([x \in 1..Len(index) |-> OccPairs(index[x].occs)]), k)]

\* Math.min() of no numbers
Infinity == <<Half, 0>>

RECURSIVE HashMin(_, _)
HashMin(best, hs) ==
    IF hs = <<>> THEN best
    ELSE HashMin(IF HashLess(Head(hs), best) THEN Head(hs) ELSE best, Tail(hs))

\* sketches[rid]: per hash function the least hash of the read's 5-mers
Sketch(seq, numHashes) ==
    [h \in 1..numHashes |->
        HashMin(Infinity, [i \in 1..Len(KmersOf(seq, MinhashWindow)) |->
            simpleHash(KmersOf(seq, MinhashWindow)[i] \o NumToString(h - 1))])]

\* the (i, j) pairs with i < j of the read ids, in loop order
IdPairs(n) == Flatten([i \in 1..n |-> [d \in 1..(n - i) |-> <<i, i + d>>]])

overlapMinhash(rds, numHashes) ==
    LET same(p) == Cardinality({x \in 1..numHashes :
                       Sketch(rds[p[1]], numHashes)[x] = Sketch(rds[p[2]], numHashes)[x]})
        kept == SelectSeq(IdPairs(Len(rds)), LAMBDA p : 10 * same(p) > numHashes)
    IN  [den |-> numHashes,
         es  |-> [i \in 1..Len(kept) |->
                    [a |-> kept[i][1], b |-> kept[i][2], score |-> same(kept[i])]]]

-----------------------------------------------------------------------------
(* Alignment: a matrix is the sequence of its rows i = 0..n, a row the      *)
(* sequence of its cells j = 0..m; P is [match, mismatch, gap].             *)

Cell(M, i, j) == M[i + 1][j + 1]

Max3(x, y, z) == Max2(x, Max2(y, z))

RECURSIVE FillRow(_, _, _, _, _, _)
\* the inner loop over j: cur holds the cells 0..j-1 of row i, prev is row i-1
FillRow(cur, prev, ai, b, P, local) ==
    LET j == Len(cur)
    IN  IF j > Len(b) THEN cur
        ELSE LET diag == prev[j] + (IF ai = b[j] THEN P.match ELSE P.mismatch)
                 up   == prev[j + 1] + P.gap
                 left == cur[j] + P.gap
             IN  FillRow(Append(cur, IF local THEN Max2(0, Max3(diag, up, left))
                                     ELSE Max3(diag, up, left)),
                         prev, ai, b, P, local)

RECURSIVE FillRows(_, _, _, _, _)
\* the outer loop over i: rows holds the rows 0..i-1
FillRows(rows, a, b, P, local) ==
    LET i == Len(rows)
    IN  IF i > Len(a) THEN rows
        ELSE FillRows(Append(rows, FillRow(<<IF local THEN 0 ELSE i * P.gap>>,
                                           rows[i], a[i], b, P, local)),
                      a, b, P, local)

\* H of smithWaterman: first row and column 0, cells floored at 0
SwMatrix(a, b, P) == FillRows(<<[j \in 1..(Len(b) + 1) |-> 0]>>, a, b, P, TRUE)

\* F of nwGlobal: first row and column multiples of gap
NwMatrix(a, b, P) == FillRows(<<[j \in 1..(Len(b) + 1) |-> (j - 1) * P.gap]>>, a, b, P, FALSE)

\* maxPos: the first cell in row-major order that holds the largest value
\* (the scan replaces maxPos only on a strictly larger cell); [0, 0] if none
SwMaxPos(H, n, m) ==
    LET cells == {<<i, j>> : i \in 1..n, j \in 1..m}
        top   == {c \in cells : /\ Cell(H, c[1], c[2]) > 0
                                /\ \A d \in cells : Cell(H, d[1], d[2]) <= Cell(H, c[1], c[2])}
    IN  IF top = {} THEN <<0, 0>>
        ELSE CHOOSE c \in top : \A d \in top : c[1] < d[1] \/ (c[1] = d[1] /\ c[2] <= d[2])

\* the move Object.entries(scores).reduce(...) selects: the accumulator is
\* kept only when strictly larger than the next entry
SwMove(diag, up, left) ==
    LET first == IF diag > up THEN [name |-> "diag", score |-> diag]
                 ELSE [name |-> "up", score |-> up]
    IN  IF first.score > left THEN first.name ELSE "left"

RECURSIVE SwBacktrace(_, _, _, _, _, _, _)
\* the while loop that measures the local alignment length
SwBacktrace(H, a, b, P, i, j, length) ==
    IF ~(i > 0 /\ j > 0 /\ Cell(H, i, j) > 0) THEN length
    ELSE LET move == SwMove(Cell(H, i - 1, j - 1)
                              + (IF a[i] = b[j] THEN P.match ELSE P.mismatch),
                            Cell(H, i - 1, j) + P.gap,
                            Cell(H, i, j - 1) + P.gap)
         IN  IF move = "diag" THEN SwBacktrace(H, a, b, P, i - 1, j - 1, length + 1)
             ELSE IF move = "up" THEN SwBacktrace(H, a, b, P, i - 1, j, length + 1)
             ELSE SwBacktrace(H, a, b, P, i, j - 1, length + 1)

\* an alignment that reports its best score as the length as well
smithWatermanScoreAsLength(a, b, P) ==
    LET H   == SwMatrix(a, b, P)
        pos == SwMaxPos(H, Len(a), Len(b))
    IN  [score |-> Cell(H, pos[1], pos[2]), length |-> Cell(H, pos[1], pos[2])]

\* smithWaterman: [score, length]
smithWaterman(a, b, P) ==
    LET H   == SwMatrix(a, b, P)
        pos == SwMaxPos(H, Len(a), Len(b))
    IN  [score  |-> Cell(H, pos[1], pos[2]),
         length |-> SwBacktrace(H, a, b, P, pos[1], pos[2], 0)]

nwGlobal(a, b, P) == Cell(NwMatrix(a, b, P), Len(a), Len(b))

\* one entry per pair i < j, in loop order
PairScores(rds, Score(_, _)) ==
    [x \in 1..Len(IdPairs(Len(rds))) |->
        LET p == IdPairs(Len(rds))[x]
        IN  [a |-> p[1], b |-> p[2], score |-> Score(rds[p[1]], rds[p[2]])]]

overlapSw_Lib(rds, P) ==
    [den |-> 1, es |-> PairScores(rds, LAMBDA x, y : smithWaterman(x, y, P).length)]

overlapSw_Dbg(rds, P) ==
    [den |-> 1,
     es  |-> SelectSeq(PairScores(rds, LAMBDA x, y : smithWaterman(x, y, P).length),
                       LAMBDA e : e.score > SwKeepAbove)]

overlapNw_Lib(rds, P) ==
    [den |-> 1, es |-> PairScores(rds, LAMBDA x, y : nwGlobal(x, y, P))]

overlapNw_Dbg(rds, P) ==
    [den |-> 1,
     es  |-> SelectSeq(PairScores(rds, LAMBDA x, y : nwGlobal(x, y, P)),
                       LAMBDA e : e.score > 0)]

-----------------------------------------------------------------------------
(* Layout implementations.  A read id is its position in the reads list;    *)
(* 0 stands for null.  Thresholds are compared with score / den.            *)

RECURSIVE ScanUnused(_, _, _, _)
\* the for loop over unused of layoutGreedy (Lib): <<best, bestScore>>
ScanUnused(acc, rest, cur, ov) ==
    IF rest = <<>> THEN acc
    ELSE LET sc == OvLookup(ov.es, cur, Head(rest))
         IN  ScanUnused(IF sc > acc[2] THEN <<Head(rest), sc>> ELSE acc,
                        Tail(rest), cur, ov)

\* a loop body that appends the chosen read but leaves it in unused
GreedyStepKeepsUnused_Lib(st, ov, overlapThreshold) ==
    LET cur  == Last(st.order)
        best == ScanUnused(<<0, overlapThreshold * ov.den>>, st.unused, cur, ov)[1]
        pick == IF best # 0 THEN best ELSE st.unused[1]
    IN  [order |-> Append(st.order, pick), unused |-> Tail(st.unused)]

\* one iteration of "while (unused.size > 0)" of layoutGreedy (Lib);
\* st is [order, unused], unused in Set insertion order
GreedyStep_Lib(st, ov, overlapThreshold) ==
    LET cur  == Last(st.order)
        best == ScanUnused(<<0, overlapThreshold * ov.den>>, st.unused, cur, ov)[1]
        pick == IF best # 0 THEN best ELSE st.unused[1]
    IN  [order  |-> Append(st.order, pick),
         unused |-> SelectSeq(st.unused, LAMBDA r : r # pick)]

\* layoutGreedy (Lib) up to its loop: the first read starts the chain
GreedyInit_Lib(n) ==
    IF n = 0 THEN [order |-> <<>>, unused |-> <<>>]
    ELSE [order |-> <<1>>, unused |-> [i \in 1..(n - 1) |-> i + 1]]

RECURSIVE SortByScoreDesc(_, _)
\* edges.sort((a, b) => b[2] - a[2]), a stable sort: each edge goes after
\* the edges already placed whose score is not smaller
SortByScoreDesc(sorted, rest) ==
    IF rest = <<>> THEN sorted
    ELSE LET e    == Head(rest)
             keep == Cardinality({i \in 1..Len(sorted) : sorted[i].score >= e.score})
         IN  SortByScoreDesc(SubSeq(sorted, 1, keep) \o <<e>>
                               \o SubSeq(sorted, keep + 1, Len(sorted)),
                             Tail(rest))

\* the edges of layoutGreedy (Dbg): entries with score >= threshold, sorted
GreedyEdges_Dbg(ov, overlapThreshold) ==
    SortByScoreDesc(<<>>, SelectSeq(ov.es, LAMBDA e : e.score >= overlapThreshold * ov.den))

RECURSIVE ScanEdges(_, _, _, _)
\* the for loop over edges of layoutGreedy (Dbg): <<bestNext, bestScore>>
ScanEdges(acc, rest, order, used) ==
    IF rest = <<>> THEN acc
    ELSE LET e == Head(rest)
         IN  ScanEdges(IF /\ order # <<>>
                          /\ Last(order) = e.a
                          /\ e.b \notin used
                          /\ e.score > acc[2]
                       THEN <<e.b, e.score>> ELSE acc,
                       Tail(rest), order, used)

\* a loop body whose fallback takes the first read whether used or not
GreedyStepFallbackFirst_Dbg(st, edges, n) ==
    LET bestNext == ScanEdges(<<0, 0>>, edges, st.order, st.used)[1]
        pick     == IF bestNext # 0 THEN bestNext ELSE 1
    IN  [order |-> Append(st.order, pick), used |-> st.used \cup {pick}]

\* one iteration of "while (order.length < n)" of layoutGreedy (Dbg);
\* st is [order, used]
GreedyStep_Dbg(st, edges, n) ==
    LET bestNext == ScanEdges(<<0, 0>>, edges, st.order, st.used)[1]
        free     == {r \in 1..n : r \notin st.used}
        pick     == IF bestNext # 0 THEN bestNext
                    ELSE CHOOSE r \in free : \A q \in free : r <= q
    IN  IF bestNext = 0 /\ free = {} THEN st
        ELSE [order |-> Append(st.order, pick), used |-> st.used \cup {pick}]

\* layoutGreedy (Dbg) up to its loop: the best edge's first read, if any
GreedyInit_Dbg(edges) ==
    IF edges = <<>> THEN [order |-> <<>>, used |-> {}]
    ELSE [order |-> <<edges[1].a>>, used |-> {edges[1].a}]

RECURSIVE permutations(_)
\* permutations(arr), in the order the recursion produces them
permutations(arr) ==
    IF Len(arr) <= 1 THEN <<arr>>
    ELSE Flatten([i \in 1..Len(arr) |->
            LET rest  == SubSeq(arr, 1, i - 1) \o SubSeq(arr, i + 1, Len(arr))
                perms == permutations(rest)
            IN  [x \in 1..Len(perms) |-> <<arr[i]>> \o perms[x]]])

RECURSIVE MergeOrderNoReject(_, _, _, _, _)
\* a merge loop that never rejects an ordering for a small overlap
MergeOrderNoReject(acc, i, order, rds, ovm) ==
    IF i > Len(order) - 1 THEN acc
    ELSE LET o == OvLookup(ovm.ov.es, order[i], order[i + 1])
         IN  MergeOrderNoReject([ok |-> TRUE,
                                 s  |-> acc.s \o SubstringFrom(rds[order[i + 1]], o \div ovm.ov.den)],
                                i + 1, order, rds, ovm)

RECURSIVE MergeOrder(_, _, _, _, _)
\* the loop over consecutive reads of one ordering: [ok, s]
MergeOrder(acc, i, order, rds, ovm) ==
    IF i > Len(order) - 1 THEN acc
    ELSE LET o == OvLookup(ovm.ov.es, order[i], order[i + 1])
         IN  IF o < ovm.minOverlap * ovm.ov.den THEN [ok |-> FALSE, s |-> acc.s]
             ELSE MergeOrder([ok |-> TRUE,
                              s  |-> acc.s \o SubstringFrom(rds[order[i + 1]], o \div ovm.ov.den)],
                             i + 1, order, rds, ovm)

RECURSIVE BestOrder(_, _, _, _)
\* the loop over perms: acc is [bestOrder, bestLen, threw]; bestLen -1 is
\* Infinity, and bestOrder is null as long as bestLen is Infinity
BestOrder(acc, perms, rds, ovm) ==
    IF perms = <<>> \/ acc.threw THEN acc
    ELSE LET order == Head(perms)
             first == IF order = <<>> THEN Undefined ELSE rds[order[1]]
             m     == MergeOrder([ok |-> TRUE, s |-> first], 1, order, rds, ovm)
         IN  IF m.ok /\ m.s = Undefined
             THEN [acc EXCEPT !.threw = TRUE]
             ELSE BestOrder(IF m.ok /\ (acc.bestLen = -1 \/ Len(m.s) < acc.bestLen)
                            THEN [bestOrder |-> order, bestLen |-> Len(m.s), threw |-> FALSE]
                            ELSE acc,
                            Tail(perms), rds, ovm)

\* layoutSuperstring: [threw, order]; threw is the TypeError of s.length on
\* an undefined s
SuperstringResult(acc) ==
    [threw |-> acc.threw,
     order |-> IF acc.bestLen = -1 THEN <<>> ELSE acc.bestOrder]

layoutSuperstring_Lib(rds, ov, minOverlap) ==
    SuperstringResult(
        BestOrder([bestOrder |-> <<>>, bestLen |-> -1, threw |-> FALSE],
                  permutations([i \in 1..Len(rds) |-> i]), rds,
                  [ov |-> ov, minOverlap |-> minOverlap]))

layoutSuperstring_Dbg(rds, ov, minOverlap) ==
    IF Len(rds) <= SuperstringCutoff
    THEN layoutSuperstring_Lib(rds, ov, minOverlap)
    ELSE [threw |-> FALSE, order |-> <<>>]

-----------------------------------------------------------------------------
(* Consensus implementations *)

\* String.prototype.indexOf: the first 0-based position of sub in s, or -1
IndexOf(s, sub) ==
    LET at == {p \in 0..(Len(s) - Len(sub)) : SubSeq(s, p + 1, p + Len(sub)) = sub}
    IN  IF at = {} THEN -1 ELSE CHOOSE p \in at : \A q \in at : p <= q

\* Array.prototype.indexOf on a layout order
OrderIndexOf(order, r) ==
    LET at == {p \in 1..Len(order) : order[p] = r}
    IN  IF at = {} THEN -1 ELSE (CHOOSE p \in at : \A q \in at : p <= q) - 1

\* the votes of a tally that is not seeded with the sequence itself
ColumnVotesReadsOnly(seq, rds, col) ==
    Flatten([r \in 1..Len(rds) |->
        LET pos == IndexOf(seq, rds[r])
        IN  IF pos >= 0 /\ pos <= col /\ col < pos + Len(rds[r])
            THEN <<rds[r][col - pos + 1]>> ELSE <<>>])

\* the letters voted at 0-based column col, in voting order: the seed, then
\* every read whose first occurrence in seq covers the column
ColumnVotes(seq, rds, col) ==
    <<seq[col + 1]>> \o
    Flatten([r \in 1..Len(rds) |->
        LET pos == IndexOf(seq, rds[r])
        IN  IF pos >= 0 /\ pos <= col /\ col < pos + Len(rds[r])
            THEN <<rds[r][col - pos + 1]>> ELSE <<>>])

\* Counter.mostCommon(1)[0][0]: the stable sort keeps the first-inserted of
\* the keys with the largest count
MostCommon(c) ==
    LET top == {i \in 1..Len(c) : \A j \in 1..Len(c) : c[j].count <= c[i].count}
    IN  c[CHOOSE i \in top : \A j \in top : i <= j].key

\* consensusMajority of a string seq (the caller throws on undefined)
consensusMajority(seq, rds) ==
    [col \in 1..Len(seq) |->
        LET votes == IncrementAll(<<>>, ColumnVotes(seq, rds, col - 1))
        IN  IF votes = <<>> THEN "N" ELSE MostCommon(votes)]

\* the length of the common run of cons from j and rseq from k (0-based)
RECURSIVE RunLength(_, _, _, _, _)
RunLength(cons, rseq, j, k, pos) ==
    IF /\ j + pos < Len(cons)
       /\ k + pos < Len(rseq)
       /\ cons[j + pos + 1] = rseq[k + pos + 1]
    THEN RunLength(cons, rseq, j, k, pos + 1)
    ELSE pos

\* the search loops of consensusPoa: [len, pos] of bestMatch, the first
\* (j, k) in loop order whose run is the longest; [0, 0] when none is found
PoaBestMatch(cons, rseq) ==
    LET starts == {<<j, k>> : j \in 0..(Len(cons) - PoaSearchRun),
                              k \in 0..(Len(rseq) - PoaSearchRun)}
        top    == {c \in starts :
                     /\ RunLength(cons, rseq, c[1], c[2], 0) > 0
                     /\ \A d \in starts : RunLength(cons, rseq, d[1], d[2], 0)
                                            <= RunLength(cons, rseq, c[1], c[2], 0)}
        at     == CHOOSE c \in top : \A d \in top : c[1] < d[1] \/ (c[1] = d[1] /\ c[2] <= d[2])
    IN  IF top = {} THEN [len |-> 0, pos |-> 0]
        ELSE [len |-> RunLength(cons, rseq, at[1], at[2], 0), pos |-> at[1]]

\* one iteration of consensusPoa's loop over the order
PoaMerge(cons, rseq) ==
    LET best == PoaBestMatch(cons, rseq)
    IN  IF best.len > PoaSpliceAbove
        THEN SubSeq(cons, 1, best.pos) \o SubSeq(cons, best.pos + 1, best.pos + best.len)
               \o SubstringFrom(rseq, best.len)
        ELSE cons \o rseq

RECURSIVE PoaFrom(_, _, _, _)
PoaFrom(cons, i, order, rds) ==
    IF i > Len(order) THEN cons
    ELSE PoaFrom(PoaMerge(cons, rds[order[i]]), i + 1, order, rds)

\* consensusPoa: undefined for an empty order
consensusPoa(order, rds) ==
    IF order = <<>> THEN Undefined ELSE PoaFrom(rds[order[1]], 2, order, rds)

RECURSIVE AssembleSeq(_, _, _, _, _)
\* the merge loop of assemble: seq += reads[b].substring(ov)
AssembleSeq(seq, i, pathEdges, rds, ov) ==
    IF i > Len(pathEdges) - 1 THEN seq
    ELSE AssembleSeq(seq \o SubstringFrom(rds[pathEdges[i + 1]],
                              OvLookup(ov.es, pathEdges[i], pathEdges[i + 1]) \div ov.den),
                     i + 1, pathEdges, rds, ov)

\* assemble(pathEdges) of runOlc: [threw, what, value, seq]
assemble(pathEdges, rds, ov, cm) ==
    LET seq == IF pathEdges = <<>> THEN Undefined
               ELSE AssembleSeq(rds[pathEdges[1]], 1, pathEdges, rds, ov)
    IN  IF cm = "majority" THEN
            IF seq = Undefined
            THEN [threw |-> TRUE, kind |-> "TypeError", value |-> "undefined", seq |-> Undefined]
            ELSE [threw |-> FALSE, kind |-> "none", value |-> "none",
                  seq |-> consensusMajority(seq, rds)]
        ELSE IF cm = "poa" THEN
            [threw |-> FALSE, kind |-> "none", value |-> "none",
             seq |-> consensusPoa(pathEdges, rds)]
        ELSE [threw |-> TRUE, kind |-> "Unknown consensus method", value |-> cm,
              seq |-> Undefined]

\* the layout edges and the branches of runOlc: <<i, j>> pairs of 0-based
\* positions (indexOf gives -1 for a read the order lacks)
Consecutive(order, a, b) == \E i \in 1..(Len(order) - 1) : order[i] = a /\ order[i + 1] = b

olcBranches(order, ov) ==
    LET hit == SelectSeq(ov.es, LAMBDA e : /\ e.score > 0
                                           /\ ~Consecutive(order, e.a, e.b)
                                           /\ ~Consecutive(order, e.b, e.a))
    IN  [x \in 1..Len(hit) |-> <<OrderIndexOf(order, hit[x].a), OrderIndexOf(order, hit[x].b)>>]

\* a swap that writes position i only
SwapAtFirstOnly(order, i, j) ==
    [x \in 1..Len(order) |-> IF x = i + 1 /\ j >= 0 THEN order[j + 1] ELSE order[x]]

\* altOrder: a copy of primary with positions i and j (0-based) exchanged;
\* writing index -1 of an array adds no element
SwapAt(order, i, j) ==
    [x \in 1..Len(order) |->
        IF x = i + 1 /\ j >= 0 THEN order[j + 1]
        ELSE IF x = j + 1 /\ i >= 0 THEN order[i + 1]
        ELSE order[x]]

-----------------------------------------------------------------------------
(* State *)

VARIABLES
    engine,      \* "olc" (runOlc) or "dbg" (runDebruijn)
    impl,        \* which copy of the OLC library runs: "Lib" or "Dbg"
    reads,       \* readsInput, an array of sequences; read i-1 has id i
    cfg,         \* the configuration arguments
    pc,          \* the statement the run has reached
    error,       \* the error thrown out of the run, or None
    overlaps,    \* runOlc: the Overlaps object
    edges,       \* layoutGreedy (Dbg): the sorted edges
    order,       \* the layout order being built, then the primary order
    unused,      \* layoutGreedy (Lib): the Set of unused reads
    used,        \* layoutGreedy (Dbg): the Set of used reads
    branches,    \* the branches of the result
    assemblies,  \* results (runOlc) / sequences (runDebruijn)
    altIdx,      \* how many branches the alternates loop has passed
    counts,      \* runDebruijn: the k-mer Counter
    goodKmers,   \* the Set filterErrors returned
    bloom,       \* the Bloom filter in use
    added,       \* the items add was called with
    graph,       \* the de Bruijn graph
    indegree,    \* its in-degree Counter
    outdegree,   \* its out-degree Counter
    branchNodes, \* the branch nodes runDebruijn detected
    eg,          \* the graph handed to findEulerianPath
    local,       \* findEulerianPath's working copy (local / graphCopy)
    stack,       \* the explicit stack, or the chain of active dfs calls
    path,        \* the path being collected
    steps        \* loop iterations of the current findEulerianPath call

inVars  == <<engine, impl, reads, cfg>>
olcVars == <<overlaps, edges, order, unused, used>>
dbgVars == <<counts, goodKmers, graph, indegree, outdegree, branchNodes>>
eulVars == <<eg, local, stack, path, steps>>
blmVars == <<bloom, added>>
resVars == <<branches, assemblies, altIdx>>
vars == <<engine, impl, reads, cfg, pc, error, overlaps, edges, order, unused, used,
          branches, assemblies, altIdx, counts, goodKmers, bloom, added, graph,
          indegree, outdegree, branchNodes, eg, local, stack, path, steps>>

None == [kind |-> "none", value |-> "none"]

\* every sequence over S of length at most n
SeqsUpTo(S, n) == UNION {[1..m -> S] : m \in 0..n}

\* the reads of Scenario 1 and 2 of the specification
Read0 == <<"A", "C", "T", "G", "A", "C">>
Read1 == <<"T", "G", "A", "C", "G", "T">>
Read2 == <<"A", "C", "G", "T", "G", "A">>
ScenarioReads == {<<Read0, Read1, Read2>>, <<Read0, Read1>>}

\* the read lists a run is given
ReadLists == SeqsUpTo(SeqsUpTo(Alphabet, MaxReadLen), MaxReads) \cup ScenarioReads

\* the state of everything a run computes, before it starts
Fresh ==
    /\ error = None
    /\ overlaps = [den |-> 1, es |-> <<>>]
    /\ edges = <<>>
    /\ order = <<>>
    /\ unused = <<>>
    /\ used = {}
    /\ branches = <<>>
    /\ assemblies = <<>>
    /\ altIdx = 0
    /\ counts = <<>>
    /\ goodKmers = <<>>
    /\ bloom = BloomNew(0, 0)
    /\ added = {}
    /\ graph = <<>>
    /\ indegree = <<>>
    /\ outdegree = <<>>
    /\ branchNodes = <<>>
    /\ eg = <<>>
    /\ local = <<>>
    /\ stack = <<>>
    /\ path = <<>>
    /\ steps = 0

-----------------------------------------------------------------------------
(* runDebruijn *)

\* overlapCfg.params and layoutCfg.params of runDebruijn; a numeric 0 is a
\* supplied zero
DbgKs == {1, 2, 3}
DbgThresholds == {1, 2}
DbgConfigs ==
    [k : DbgKs, error_filter : {"threshold", "bloom", "counting"},
     threshold : DbgThresholds, euler : {"hierholzer", "recursive", "fleury"},
     detectAlts : BOOLEAN]

\* the Bloom filter filterErrors builds in "bloom" mode
FilterBloom(c, threshold) ==
    BloomAddAll(BloomNew(2 * Len(c), BloomHashCount), PassingKmers(c, threshold))

\* const counts = countKmers(reads, k), k = params.k || 31
DbgCountKmers ==
    /\ engine = "dbg" /\ pc = "start"
    /\ counts' = countKmers(reads, OrElse(cfg.k, DefaultK))
    /\ pc' = "counted"
    /\ UNCHANGED <<inVars, error, olcVars, resVars, goodKmers, bloom, added, graph,
                   indegree, outdegree, branchNodes, eulVars>>

\* const goodKmers = filterErrors(counts, errMethod, threshold)
DbgFilterErrors ==
    /\ engine = "dbg" /\ pc = "counted"
    /\ goodKmers' = filterErrors(counts, cfg.error_filter, OrElse(cfg.threshold, DefaultThreshold))
    /\ IF cfg.error_filter = "bloom"
       THEN /\ bloom' = FilterBloom(counts, OrElse(cfg.threshold, DefaultThreshold))
            /\ added' = Range(PassingKmers(counts, OrElse(cfg.threshold, DefaultThreshold)))
       ELSE UNCHANGED <<bloom, added>>
    /\ pc' = "filtered"
    /\ UNCHANGED <<inVars, error, olcVars, resVars, counts, graph, indegree, outdegree,
                   branchNodes, eulVars>>

\* const [graph, indeg, outdeg] = buildDebruijnGraph(goodKmers)
DbgBuildGraph ==
    /\ engine = "dbg" /\ pc = "filtered"
    /\ LET G == buildDebruijnGraph(goodKmers)
       IN  /\ graph' = G.graph
           /\ indegree' = G.indegree
           /\ outdegree' = G.outdegree
    /\ pc' = "built"
    /\ UNCHANGED <<inVars, error, olcVars, resVars, counts, goodKmers, blmVars,
                   branchNodes, eulVars>>

\* simplifyTips(graph, indeg, outdeg), then the branch detection loop
DbgSimplifyTips ==
    /\ engine = "dbg" /\ pc = "built"
    /\ LET G == simplifyTips([graph |-> graph, indegree |-> indegree, outdegree |-> outdegree])
       IN  /\ graph' = G.graph
           /\ indegree' = G.indegree
           /\ outdegree' = G.outdegree
           /\ branchNodes' = BranchNodes(G.graph)
           /\ eg' = G.graph
    /\ pc' = "assemble"
    /\ UNCHANGED <<inVars, error, olcVars, resVars, counts, goodKmers, blmVars,
                   local, stack, path, steps>>

\* findEulerianPath up to its traversal loop: the empty-graph return, the
\* start node, the working copy
EulerStart ==
    /\ engine = "dbg" /\ pc = "assemble"
    /\ IF GraphKeys(eg) = <<>>
       THEN /\ pc' = "linearize"
            /\ path' = <<>>
            /\ UNCHANGED <<local, stack>>
       ELSE /\ pc' = "euler"
            /\ local' = eg
            /\ stack' = <<StartNode(eg, indegree, outdegree)>>
            /\ path' = <<>>
    /\ steps' = 0
    /\ UNCHANGED <<inVars, error, olcVars, resVars, dbgVars, blmVars, eg>>

\* the successor a traversal step consumes: hierholzer shifts the first,
\* the recursive method (any other method string) pops the last
TakeNext(method, succs) == IF method = "hierholzer" THEN succs[1] ELSE succs[Len(succs)]

\* a step that takes a successor and leaves it in the working copy
RestAfterTakeKeeps(method, succs) == succs

\* a recursive method that drops every successor with the one it takes
RestAfterTakeDropsAll(method, succs) ==
    IF method = "hierholzer" THEN Tail(succs) ELSE <<>>

RestAfterTake(method, succs) ==
    IF method = "hierholzer" THEN Tail(succs) ELSE SubSeq(succs, 1, Len(succs) - 1)

HasEdges(g, u) == GraphHas(g, u) /\ GraphGet(g, u) # <<>>

\* a traversal step that takes the edge out of the graph it was handed
EulerPushInPlace ==
    /\ engine = "dbg" /\ pc = "euler" /\ stack # <<>>
    /\ HasEdges(local, Last(stack))
    /\ LET u == Last(stack)
       IN  /\ stack' = Append(stack, TakeNext(cfg.euler, GraphGet(local, u)))
           /\ local' = GraphSet(local, u, RestAfterTake(cfg.euler, GraphGet(local, u)))
           /\ eg' = GraphSet(local, u, RestAfterTake(cfg.euler, GraphGet(local, u)))
    /\ steps' = steps + 1
    /\ UNCHANGED <<inVars, pc, error, olcVars, resVars, dbgVars, blmVars, path>>

\* stack.push(local[u].shift()) / const v = graphCopy[u].pop(); dfs(v)
EulerPush ==
    /\ engine = "dbg" /\ pc = "euler" /\ stack # <<>>
    /\ HasEdges(local, Last(stack))
    /\ LET u == Last(stack)
       IN  /\ stack' = Append(stack, TakeNext(cfg.euler, GraphGet(local, u)))
           /\ local' = GraphSet(local, u, RestAfterTake(cfg.euler, GraphGet(local, u)))
    /\ steps' = steps + 1
    /\ UNCHANGED <<inVars, pc, error, olcVars, resVars, dbgVars, blmVars, eg, path>>

\* path.push(stack.pop()) / path.push(u) at the end of dfs(u)
EulerPop ==
    /\ engine = "dbg" /\ pc = "euler" /\ stack # <<>>
    /\ ~HasEdges(local, Last(stack))
    /\ path' = Append(path, Last(stack))
    /\ stack' = SubSeq(stack, 1, Len(stack) - 1)
    /\ steps' = steps + 1
    /\ UNCHANGED <<inVars, pc, error, olcVars, resVars, dbgVars, blmVars, eg, local>>

\* the path findEulerianPath returns from the collected one
FinishPathUnreversed(p) == p

FinishPath(p) == Reverse(p)

\* return path.reverse()
EulerReturn ==
    /\ engine = "dbg" /\ pc = "euler" /\ stack = <<>>
    /\ path' = FinishPath(path)
    /\ pc' = "linearize"
    /\ UNCHANGED <<inVars, error, olcVars, resVars, dbgVars, blmVars, eg, local, stack, steps>>

\* pathToSequence(path) in assembleGraph, and what runDebruijn does with the
\* sequence: the primary starts the list, an alternate is kept if it is
\* non-empty and differs from the primary
DbgLinearize ==
    /\ engine = "dbg" /\ pc = "linearize"
    /\ LET seq == pathToSequence(path)
       IN  IF assemblies = <<>>
           THEN assemblies' = <<seq>>
           ELSE IF seq # assemblies[1] /\ Len(seq) > 0
                THEN assemblies' = Append(assemblies, seq)
                ELSE UNCHANGED assemblies
    /\ pc' = "alternates"
    /\ UNCHANGED <<inVars, error, olcVars, branches, altIdx, dbgVars, blmVars, eulVars>>

\* one iteration of "for (const node of branchNodes)" up to assembleGraph
DbgNextAlternate ==
    /\ engine = "dbg" /\ pc = "alternates"
    /\ cfg.detectAlts /\ altIdx < Len(branchNodes)
    /\ altIdx' = altIdx + 1
    /\ IF Len(GraphGet(graph, branchNodes[altIdx + 1])) < 2
       THEN UNCHANGED <<pc, eg>>
       ELSE /\ eg' = SwapFirstTwo(graph, branchNodes[altIdx + 1])
            /\ pc' = "assemble"
    /\ UNCHANGED <<inVars, error, olcVars, branches, assemblies, dbgVars, blmVars,
                   local, stack, path, steps>>

\* return { assemblies: sequences, branches: branchNodes.map((_, i) => [i, i]) }
DbgReturn ==
    /\ engine = "dbg" /\ pc = "alternates"
    /\ ~(cfg.detectAlts /\ altIdx < Len(branchNodes))
    /\ branches' = [i \in 1..Len(branchNodes) |-> <<i - 1, i - 1>>]
    /\ pc' = "done"
    /\ UNCHANGED <<inVars, error, olcVars, assemblies, altIdx, dbgVars, blmVars, eulVars>>

NextDbg ==
    \/ DbgCountKmers
    \/ DbgFilterErrors
    \/ DbgBuildGraph
    \/ DbgSimplifyTips
    \/ EulerStart
    \/ EulerPush
    \/ EulerPop
    \/ EulerReturn
    \/ DbgLinearize
    \/ DbgNextAlternate
    \/ DbgReturn

InitDbg ==
    /\ engine = "dbg"
    /\ impl = "Lib"
    /\ reads \in ReadLists
    /\ cfg \in DbgConfigs
    /\ pc = "start"
    /\ Fresh

SpecDbg == InitDbg /\ [][NextDbg]_vars

-----------------------------------------------------------------------------
(* runOlc *)

\* overlapCfg of runOlc: the method and the parameters it reads (0: absent)
OverlapChoices ==
    {[om |-> "kmer", k |-> k, numHashes |-> 0] : k \in {1, 2, 3}}
      \cup {[om |-> "minhash", k |-> 0, numHashes |-> 2]}
      \cup {[om |-> m, k |-> 0, numHashes |-> 0] : m \in {"sw", "nw", "blast"}}

\* layoutCfg of runOlc
LayoutChoices ==
    {[lm |-> "greedy", overlapThreshold |-> 1, minOverlap |-> 0]}
      \cup {[lm |-> "superstring", overlapThreshold |-> 0, minOverlap |-> m] : m \in {1, 2}}
      \cup {[lm |-> "random", overlapThreshold |-> 0, minOverlap |-> 0]}

OlcConfigs ==
    {[om |-> o.om, k |-> o.k, numHashes |-> o.numHashes,
      match |-> 0, mismatch |-> 0, gap |-> 0,
      lm |-> l.lm, overlapThreshold |-> l.overlapThreshold, minOverlap |-> l.minOverlap,
      cm |-> c, detectAlts |-> d] :
        o \in OverlapChoices, l \in LayoutChoices, c \in {"majority", "poa", "none"},
        d \in BOOLEAN}

\* op.match || dflt, op.mismatch || -1, op.gap || -1
AlignParams(c, dflt) ==
    [match |-> OrElse(c.match, dflt), mismatch |-> OrElse(c.mismatch, -1),
     gap |-> OrElse(c.gap, -1)]

KnownOverlap(om) == om \in {"kmer", "minhash", "sw", "nw"}

\* the switch on overlapCfg.method, for a known method
ComputeOverlaps(im, rds, c) ==
    IF c.om = "kmer" THEN overlapKmer(rds, OrElse(c.k, DefaultOverlapK))
    ELSE IF c.om = "minhash" THEN overlapMinhash(rds, OrElse(c.numHashes, DefaultNumHashes))
    ELSE IF c.om = "sw" THEN
        IF im = "Lib" THEN overlapSw_Lib(rds, AlignParams(c, DefaultSwMatch))
        ELSE overlapSw_Dbg(rds, AlignParams(c, DefaultSwMatch))
    ELSE IF im = "Lib" THEN overlapNw_Lib(rds, AlignParams(c, DefaultNwMatch))
    ELSE overlapNw_Dbg(rds, AlignParams(c, DefaultNwMatch))

\* const reads = loadReads(readsInput); switch (om) { ... }
OlcOverlap ==
    /\ engine = "olc" /\ pc = "start"
    /\ IF KnownOverlap(cfg.om)
       THEN /\ overlaps' = ComputeOverlaps(impl, reads, cfg)
            /\ pc' = "layout"
            /\ UNCHANGED error
       ELSE /\ error' = [kind |-> "Unknown overlap method", value |-> cfg.om]
            /\ pc' = "error"
            /\ UNCHANGED overlaps
    /\ UNCHANGED <<inVars, edges, order, unused, used, resVars, dbgVars, blmVars, eulVars>>

\* switch (lm): layoutGreedy up to its loop, or all of layoutSuperstring
OlcLayout ==
    /\ engine = "olc" /\ pc = "layout"
    /\ IF cfg.lm = "greedy" THEN
            /\ pc' = "greedy"
            /\ IF impl = "Lib"
               THEN /\ order' = GreedyInit_Lib(Len(reads)).order
                    /\ unused' = GreedyInit_Lib(Len(reads)).unused
                    /\ UNCHANGED <<edges, used>>
               ELSE LET es == GreedyEdges_Dbg(overlaps,
                                  OrElse(cfg.overlapThreshold, DefaultOverlapThreshold))
                    IN  /\ edges' = es
                        /\ order' = GreedyInit_Dbg(es).order
                        /\ used' = GreedyInit_Dbg(es).used
                        /\ UNCHANGED unused
            /\ UNCHANGED error
       ELSE IF cfg.lm = "superstring" THEN
            LET res == IF impl = "Lib"
                       THEN layoutSuperstring_Lib(reads, overlaps,
                                OrElse(cfg.minOverlap, DefaultMinOverlap))
                       ELSE layoutSuperstring_Dbg(reads, overlaps,
                                OrElse(cfg.minOverlap, DefaultMinOverlap))
            IN  IF res.threw
                THEN /\ error' = [kind |-> "TypeError", value |-> "undefined"]
                     /\ pc' = "error"
                     /\ UNCHANGED <<edges, order, unused, used>>
                ELSE /\ order' = res.order
                     /\ pc' = "branches"
                     /\ UNCHANGED <<error, edges, unused, used>>
       ELSE /\ error' = [kind |-> "Unknown layout method", value |-> cfg.lm]
            /\ pc' = "error"
            /\ UNCHANGED <<edges, order, unused, used>>
    /\ UNCHANGED <<inVars, overlaps, resVars, dbgVars, blmVars, eulVars>>

\* the loop condition of layoutGreedy
GreedyMore ==
    IF impl = "Lib" THEN unused # <<>> ELSE Len(order) < Len(reads)

\* one iteration of layoutGreedy's while loop
OlcGreedyStep ==
    /\ engine = "olc" /\ pc = "greedy" /\ GreedyMore
    /\ IF impl = "Lib"
       THEN LET st == GreedyStep_Lib([order |-> order, unused |-> unused], overlaps,
                          OrElse(cfg.overlapThreshold, DefaultOverlapThreshold))
            IN  /\ order' = st.order
                /\ unused' = st.unused
                /\ UNCHANGED used
       ELSE LET st == GreedyStep_Dbg([order |-> order, used |-> used], edges, Len(reads))
            IN  /\ order' = st.order
                /\ used' = st.used
                /\ UNCHANGED unused
    /\ steps' = steps + 1
    /\ UNCHANGED <<inVars, pc, error, overlaps, edges, resVars, dbgVars, blmVars,
                   eg, local, stack, path>>

\* return order
OlcGreedyReturn ==
    /\ engine = "olc" /\ pc = "greedy" /\ ~GreedyMore
    /\ pc' = "branches"
    /\ UNCHANGED <<inVars, error, olcVars, resVars, dbgVars, blmVars, eulVars>>

\* the layoutEdges and branches loops
OlcBranches ==
    /\ engine = "olc" /\ pc = "branches"
    /\ branches' = olcBranches(order, overlaps)
    /\ pc' = "primary"
    /\ UNCHANGED <<inVars, error, olcVars, assemblies, altIdx, dbgVars, blmVars, eulVars>>

\* const assembled = assemble(primary); const results = [assembled]
OlcAssemblePrimary ==
    /\ engine = "olc" /\ pc = "primary"
    /\ LET res == assemble(order, reads, overlaps, cfg.cm)
       IN  IF res.threw
           THEN /\ error' = [kind |-> res.kind, value |-> res.value]
                /\ pc' = "error"
                /\ UNCHANGED assemblies
           ELSE /\ assemblies' = <<res.seq>>
                /\ pc' = "alternates"
                /\ UNCHANGED error
    /\ UNCHANGED <<inVars, olcVars, branches, altIdx, dbgVars, blmVars, eulVars>>

\* an alternates loop that puts each alternate in front of the results
OlcNextAlternateUnshift ==
    /\ engine = "olc" /\ pc = "alternates"
    /\ cfg.detectAlts /\ altIdx < Len(branches)
    /\ altIdx' = altIdx + 1
    /\ LET b   == branches[altIdx + 1]
           res == assemble(SwapAt(order, b[1], b[2]), reads, overlaps, cfg.cm)
       IN  IF ~res.threw /\ res.seq # assemblies[1]
           THEN assemblies' = <<res.seq>> \o assemblies
           ELSE UNCHANGED assemblies
    /\ UNCHANGED <<inVars, pc, error, olcVars, branches, dbgVars, blmVars, eulVars>>

\* one iteration of "for (const [i, j] of branches)": an error thrown by
\* assemble(altOrder) is caught and the alternate skipped
OlcNextAlternate ==
    /\ engine = "olc" /\ pc = "alternates"
    /\ cfg.detectAlts /\ altIdx < Len(branches)
    /\ altIdx' = altIdx + 1
    /\ LET b   == branches[altIdx + 1]
           res == assemble(SwapAt(order, b[1], b[2]), reads, overlaps, cfg.cm)
       IN  IF ~res.threw /\ res.seq # assemblies[1]
           THEN assemblies' = Append(assemblies, res.seq)
           ELSE UNCHANGED assemblies
    /\ UNCHANGED <<inVars, pc, error, olcVars, branches, dbgVars, blmVars, eulVars>>

\* return { assemblies: results, branches }
OlcReturn ==
    /\ engine = "olc" /\ pc = "alternates"
    /\ ~(cfg.detectAlts /\ altIdx < Len(branches))
    /\ pc' = "done"
    /\ UNCHANGED <<inVars, error, olcVars, resVars, dbgVars, blmVars, eulVars>>

NextOlc ==
    \/ OlcOverlap
    \/ OlcLayout
    \/ OlcGreedyStep
    \/ OlcGreedyReturn
    \/ OlcBranches
    \/ OlcAssemblePrimary
    \/ OlcNextAlternate
    \/ OlcReturn

InitOlc ==
    /\ engine = "olc"
    /\ impl \in {"Lib", "Dbg"}
    /\ reads \in ReadLists
    /\ cfg \in OlcConfigs
    /\ pc = "start"
    /\ Fresh

SpecOlc == InitOlc /\ [][NextOlc]_vars

-----------------------------------------------------------------------------
(* Both engines *)

Init == InitOlc \/ InitDbg

Next == NextOlc \/ NextDbg

Spec == Init /\ [][Next]_vars

-----------------------------------------------------------------------------
(* The overlap step of runOlc on its own *)

OverlapConfigs == {c \in OlcConfigs : c.lm = "greedy" /\ c.cm = "majority" /\ ~c.detectAlts}

InitOverlap ==
    /\ engine = "olc"
    /\ impl \in {"Lib", "Dbg"}
    /\ reads \in ReadLists
    /\ cfg \in OverlapConfigs
    /\ pc = "start"
    /\ Fresh

SpecOverlap == InitOverlap /\ [][OlcOverlap]_vars

-----------------------------------------------------------------------------
(* layoutGreedy on a drawn overlap map: the reads' contents play no part,   *)
(* the map's keys name loaded reads, in either direction or twice the same  *)

LayoutScores == (-1)..MaxScore

LayoutThresholds == {-1, 0, 1, 2}

LayoutEntries(n) == [a : 1..n, b : 1..n, score : LayoutScores]

\* how many entries a drawn overlap map has
LayoutMapSizes == {0, 1, 2}

\* the drawn overlap maps over n reads, a key appearing once
LayoutOverlaps(n) ==
    {es \in UNION {[1..m -> LayoutEntries(n)] : m \in LayoutMapSizes} :
        \A i, j \in 1..Len(es) : (es[i].a = es[j].a /\ es[i].b = es[j].b) => i = j}

InitLayout ==
    /\ engine = "olc"
    /\ impl \in {"Lib", "Dbg"}
    /\ \E n \in 0..MaxLayoutReads :
          /\ reads = [i \in 1..n |-> <<"A">>]
          /\ \E es \in LayoutOverlaps(n) : overlaps = [den |-> 1, es |-> es]
    /\ \E t \in LayoutThresholds :
          cfg = [om |-> "kmer", k |-> 0, numHashes |-> 0, match |-> 0, mismatch |-> 0,
                 gap |-> 0, lm |-> "greedy", overlapThreshold |-> t, minOverlap |-> 0,
                 cm |-> "majority", detectAlts |-> FALSE]
    /\ pc = "layout"
    /\ error = None
    /\ edges = <<>> /\ order = <<>> /\ unused = <<>> /\ used = {}
    /\ branches = <<>> /\ assemblies = <<>> /\ altIdx = 0
    /\ counts = <<>> /\ goodKmers = <<>>
    /\ bloom = BloomNew(0, 0) /\ added = {}
    /\ graph = <<>> /\ indegree = <<>> /\ outdegree = <<>> /\ branchNodes = <<>>
    /\ eg = <<>> /\ local = <<>> /\ stack = <<>> /\ path = <<>> /\ steps = 0

NextLayout ==
    \/ OlcLayout
    \/ OlcGreedyStep
    \/ OlcGreedyReturn

SpecLayout == InitLayout /\ [][NextLayout]_vars

-----------------------------------------------------------------------------
(* runDebruijn on reads that are themselves distinct k-mers, every one of   *)
(* which survives the threshold filter: any k-mer set, in any order          *)

\* the sequences over S of length at most n without a repeated element
DistinctSeqs(S, n) ==
    {s \in SeqsUpTo(S, n) : \A i, j \in 1..Len(s) : s[i] = s[j] => i = j}

\* five 2-mers whose graph has two branch nodes, A -> C, G, T and T -> A, G
TwoBranchKmers == << <<"A", "C">>, <<"A", "G">>, <<"A", "T">>, <<"T", "A">>, <<"T", "G">> >>

KmerLists ==
    DistinctSeqs([1..1 -> NodeAlphabet], MaxKmers)
      \cup DistinctSeqs([1..2 -> NodeAlphabet], MaxKmers)
      \cup DistinctSeqs([1..3 -> Alphabet], MaxKmers)
      \cup {TwoBranchKmers}

\* the k of a k-mer list
KOf(kmers) == IF kmers = <<>> THEN 2 ELSE Len(kmers[1])

GraphConfigs(kmers) ==
    [k : {KOf(kmers)}, error_filter : {"threshold"}, threshold : {1},
     euler : {"hierholzer", "recursive"}, detectAlts : BOOLEAN]

InitGraph ==
    /\ engine = "dbg"
    /\ impl = "Lib"
    /\ reads \in KmerLists
    /\ cfg \in GraphConfigs(reads)
    /\ pc = "start"
    /\ Fresh

SpecGraph == InitGraph /\ [][NextDbg]_vars

\* the same runs up to the graph buildDebruijnGraph returns
NextBuild ==
    \/ DbgCountKmers
    \/ DbgFilterErrors
    \/ DbgBuildGraph

SpecBuild == InitGraph /\ [][NextBuild]_vars

-----------------------------------------------------------------------------
(* findEulerianPath called with the graph and counters that                 *)
(* buildDebruijnGraph makes of a k-mer list                                  *)

InitEuler ==
    /\ engine = "dbg"
    /\ impl = "Lib"
    /\ reads \in KmerLists
    /\ cfg \in {c \in GraphConfigs(reads) : ~c.detectAlts}
    /\ pc = "assemble"
    /\ error = None
    /\ overlaps = [den |-> 1, es |-> <<>>]
    /\ edges = <<>> /\ order = <<>> /\ unused = <<>> /\ used = {}
    /\ branches = <<>> /\ assemblies = <<>> /\ altIdx = 0
    /\ counts = countKmers(reads, cfg.k)
    /\ goodKmers = reads
    /\ bloom = BloomNew(0, 0) /\ added = {}
    /\ graph = buildDebruijnGraph(reads).graph
    /\ indegree = buildDebruijnGraph(reads).indegree
    /\ outdegree = buildDebruijnGraph(reads).outdegree
    /\ branchNodes = <<>>
    /\ eg = graph
    /\ local = <<>> /\ stack = <<>> /\ path = <<>> /\ steps = 0

NextEuler ==
    \/ EulerStart
    \/ EulerPush
    \/ EulerPop
    \/ EulerReturn

SpecEuler == InitEuler /\ [][NextEuler]_vars

\* the call runs on: a loop iteration or return that can be taken is taken
FairSpecEuler == SpecEuler /\ WF_vars(NextEuler)

-----------------------------------------------------------------------------
(* A BloomFilterImpl used on its own, and the one filterErrors builds *)

\* hash_count of a filter constructed without the argument
DefaultHashCount == 3

BloomItems == SeqsUpTo(Alphabet, 2)

\* bloom.add(item)
BloomAddItem ==
    /\ engine = "bloom" /\ steps < MaxAdds
    /\ \E item \in BloomItems :
          /\ bloom' = BloomAdd(bloom, item)
          /\ added' = added \cup {item}
    /\ steps' = steps + 1
    /\ UNCHANGED <<inVars, pc, error, olcVars, resVars, dbgVars, eg, local, stack, path>>

InitBloomAlone ==
    /\ engine = "bloom"
    /\ impl = "Lib"
    /\ reads = <<>>
    /\ cfg = [k |-> 0, error_filter |-> "bloom", threshold |-> 0, euler |-> "hierholzer",
              detectAlts |-> FALSE]
    /\ pc = "bloom"
    /\ error = None
    /\ overlaps = [den |-> 1, es |-> <<>>]
    /\ edges = <<>> /\ order = <<>> /\ unused = <<>> /\ used = {}
    /\ branches = <<>> /\ assemblies = <<>> /\ altIdx = 0
    /\ counts = <<>> /\ goodKmers = <<>>
    /\ \E size \in 1..MaxBloomSize, hash_count \in {1, DefaultHashCount, BloomHashCount} :
          bloom = BloomNew(size, hash_count)
    /\ added = {}
    /\ graph = <<>> /\ indegree = <<>> /\ outdegree = <<>> /\ branchNodes = <<>>
    /\ eg = <<>> /\ local = <<>> /\ stack = <<>> /\ path = <<>> /\ steps = 0

InitBloomFilter ==
    /\ engine = "dbg"
    /\ impl = "Lib"
    /\ reads \in ReadLists
    /\ cfg \in {c \in DbgConfigs :
                  c.error_filter = "bloom" /\ c.euler = "hierholzer" /\ ~c.detectAlts}
    /\ pc = "start"
    /\ Fresh

InitBloom == InitBloomAlone \/ InitBloomFilter

NextBloom ==
    \/ BloomAddItem
    \/ DbgCountKmers
    \/ DbgFilterErrors

SpecBloom == InitBloom /\ [][NextBloom]_vars

-----------------------------------------------------------------------------
(* The alignment methods of runOlc (sw, nw) on pairs of reads, with the      *)
(* scoring parameters given or left to their defaults                        *)

\* "ACTG" of the specification's alignment scenario
ReadActg == <<"A", "C", "T", "G">>

\* "ACAA" and "ACCCAA": their backtrace meets diagonal and left with the
\* same score
TieReads == << <<"A", "C", "A", "A">>, <<"A", "C", "C", "C", "A", "A">> >>

AlignReadLists == ReadLists \cup {<<ReadActg, ReadActg>>, <<Read0, Read0>>, TieReads}

\* op.match, op.mismatch, op.gap (0: absent, or a zero that "||" replaces)
AlignConfigs ==
    [om : {"sw", "nw"}, k : {0}, numHashes : {0},
     match : {0, 1, 2, 3}, mismatch : {0, -2}, gap : {0, -2},
     lm : {"greedy"}, overlapThreshold : {0}, minOverlap : {0},
     cm : {"majority"}, detectAlts : {FALSE}]

InitAlign ==
    /\ engine = "olc"
    /\ impl \in {"Lib", "Dbg"}
    /\ reads \in AlignReadLists
    /\ cfg \in AlignConfigs
    /\ pc = "start"
    /\ Fresh

SpecAlign == InitAlign /\ [][OlcOverlap]_vars

-----------------------------------------------------------------------------
(* runOlc with the poa consensus on reads long enough for consensusPoa's    *)
(* search loops to run (ten characters), and on a shorter one; the overlaps  *)
(* come from the alignment and MinHash methods                               *)

\* two ten-character reads that share the run AAAAAA, one that shares AAAAA
\* with them, and ACTGAC
PoaReadLists ==
    LET readC == <<"A", "A", "A", "A", "A", "A", "C", "C", "C", "C">>
        readG == <<"A", "A", "A", "A", "A", "A", "G", "G", "G", "G">>
        readT == <<"A", "A", "A", "A", "A", "T", "T", "T", "T", "T">>
    IN  SeqsUpTo({readC, readG, readT, Read0}, 2)

InitPoa ==
    /\ engine = "olc"
    /\ impl \in {"Lib", "Dbg"}
    /\ reads \in PoaReadLists
    /\ cfg \in {c \in OlcConfigs : c.cm = "poa" /\ c.om # "kmer"}
    /\ pc = "start"
    /\ Fresh

SpecPoa == InitPoa /\ [][NextOlc]_vars

-----------------------------------------------------------------------------
(* Runs whose configuration also records which numeric parameters the       *)
(* caller supplied (given).  The code never sees the difference between an   *)
(* absent parameter and a supplied 0: both are falsy operands of "||"        *)

\* overlapCfg.params of runOlc with the parameters the method reads
ParamOverlapChoices ==
    {[om |-> "kmer", k |-> k, match |-> 0, mismatch |-> 0, gap |-> 0] : k \in {0, 1, 2}}
      \cup [om : {"sw", "nw"}, k : {0}, match : {0, 2, 3}, mismatch : {0, -2}, gap : {0, -2}]

\* layoutCfg.params of runOlc
ParamLayoutChoices ==
    {[lm |-> "greedy", overlapThreshold |-> t, minOverlap |-> 0] : t \in {0, 1}}
      \cup {[lm |-> "superstring", overlapThreshold |-> 0, minOverlap |-> m] : m \in {0, 1}}

\* the parameters a choice reads
ParamsRead(o, l) ==
    (IF o.om = "kmer" THEN {"k"} ELSE {"match", "mismatch", "gap"})
      \cup (IF l.lm = "greedy" THEN {"overlapThreshold"} ELSE {"minOverlap"})

\* a parameter with a value other than 0 was supplied; one that is 0 was
\* supplied as 0 or left out
ParamConfigs ==
    {[om |-> o.om, k |-> o.k, numHashes |-> 0,
      match |-> o.match, mismatch |-> o.mismatch, gap |-> o.gap,
      lm |-> l.lm, overlapThreshold |-> l.overlapThreshold, minOverlap |-> l.minOverlap,
      cm |-> "majority", detectAlts |-> FALSE, given |-> g] :
        o \in ParamOverlapChoices, l \in ParamLayoutChoices,
        g \in SUBSET {"k", "match", "mismatch", "gap", "overlapThreshold", "minOverlap"}}

DbgParamConfigs ==
    [k : {0, 1, 2}, error_filter : {"threshold"}, threshold : {0, 1, 2},
     euler : {"hierholzer"}, detectAlts : {FALSE}, given : SUBSET {"k", "threshold"}]

\* ACA and AAA: their local alignment scores differently with mismatch 0
ParamReadLists ==
    SeqsUpTo(SeqsUpTo(Alphabet, 2), 2) \cup ScenarioReads
      \cup {<< <<"A", "C", "A">>, <<"A", "A", "A">> >>}

InitParams ==
    /\ reads \in ParamReadLists
    /\ \/ /\ engine = "olc"
          /\ impl \in {"Lib", "Dbg"}
          /\ cfg \in {c \in ParamConfigs :
                        /\ c.given \subseteq ParamsRead(c, c)
                        /\ \A p \in ParamsRead(c, c) : c[p] # 0 => p \in c.given}
       \/ /\ engine = "dbg"
          /\ impl = "Lib"
          /\ cfg \in {c \in DbgParamConfigs :
                        \A p \in {"k", "threshold"} : c[p] # 0 => p \in c.given}
    /\ pc = "start"
    /\ Fresh

NextParams ==
    \/ OlcOverlap
    \/ OlcLayout
    \/ OlcGreedyStep
    \/ OlcGreedyReturn
    \/ DbgCountKmers
    \/ DbgFilterErrors

SpecParams == InitParams /\ [][NextParams]_vars

-----------------------------------------------------------------------------
(* Properties *)

\* ord holds each of the read ids 1..n exactly once
IsPermutation(ord, n) == Len(ord) = n /\ Range(ord) = 1..n

\* runOlc has computed its layout order
LayoutDone == engine = "olc" /\ pc \in {"branches", "primary", "alternates", "done"}

\* every consecutive pair of ord overlaps by at least the minimum in force
ValidOrdering(ord) ==
    \A i \in 1..(Len(ord) - 1) :
        OvLookup(overlaps.es, ord[i], ord[i + 1])
          >= OrElse(cfg.minOverlap, DefaultMinOverlap) * overlaps.den

\* the orderings of the read ids 1..n
Orderings(n) == {p \in [1..n -> 1..n] : Range(p) = 1..n}

\* C1 (as amended): the layout order runOlc computes is a full permutation
\* of the loaded reads when the method is greedy; when it is superstring the
\* order is either a full permutation whose consecutive overlaps all reach
\* the minimum, or it is empty, and it is empty only when no ordering of the
\* reads is valid (or, in the copy with the cutoff, there are too many reads)
C1_LayoutPermutationOrEmpty ==
    LayoutDone =>
        /\ cfg.lm = "greedy" => IsPermutation(order, Len(reads))
        /\ cfg.lm = "superstring" =>
              \/ IsPermutation(order, Len(reads)) /\ ValidOrdering(order)
              \/ /\ order = <<>>
                 /\ \/ impl = "Dbg" /\ Len(reads) > SuperstringCutoff
                    \/ \A p \in Orderings(Len(reads)) : ~ValidOrdering(p)

\* C1 reached: superstring has ordered the three reads of the scenario
C1_Witness ==
    /\ LayoutDone
    /\ cfg.lm = "superstring"
    /\ Len(reads) = 3
    /\ IsPermutation(order, 3)

\* C1 as stated: whatever the layout method, the computed order holds every
\* loaded read exactly once
C1_LayoutIsPermutation == LayoutDone => IsPermutation(order, Len(reads))

\* C2: layoutGreedy's loop runs at most once per read (so it terminates),
\* never repeats a read in the order it builds, and returns an order holding
\* every read id exactly once, whatever the overlap map and the threshold
C2_GreedyPermutation ==
    (engine = "olc" /\ cfg.lm = "greedy" /\ pc \in {"greedy", "branches"}) =>
        /\ steps <= Len(reads)
        /\ Range(order) \subseteq 1..Len(reads)
        /\ \A i, j \in 1..Len(order) : order[i] = order[j] => i = j
        /\ pc = "branches" => IsPermutation(order, Len(reads))

\* C2 reached: greedy returned an order of three reads that an overlap put
\* out of input order, from a map with an entry below the threshold
C2_Witness ==
    /\ engine = "olc" /\ cfg.lm = "greedy" /\ pc = "branches"
    /\ Len(reads) = 3
    /\ order # <<1, 2, 3>>
    /\ \E e \in Range(overlaps.es) : e.score < cfg.overlapThreshold

\* x and y have a length-k substring in common
SharesKmer(x, y, k) ==
    \E i \in 1..(Len(x) - k + 1), j \in 1..(Len(y) - k + 1) :
        SubSeq(x, i, i + k - 1) = SubSeq(y, j, j + k - 1)

\* runOlc has computed the overlap map with the k-mer method
KmerOverlapDone == engine = "olc" /\ pc = "layout" /\ cfg.om = "kmer"

\* C3: for k >= 1 the map of overlapKmer has an entry for two distinct reads
\* exactly when they share a length-k substring, every entry's value is k
\* and at most the length of the shorter read, and the three reads of the
\* scenario with k = 3 give read0,read1 the value 3
C3_KmerOverlapEntries ==
    KmerOverlapDone =>
        LET k  == OrElse(cfg.k, DefaultOverlapK)
            es == overlaps.es
        IN  /\ k >= 1
            /\ overlaps.den = 1
            /\ \A a, b \in 1..Len(reads) :
                  a # b => ((OvHas(es, a, b) \/ OvHas(es, b, a))
                              <=> SharesKmer(reads[a], reads[b], k))
            /\ \A i \in 1..Len(es) :
                  /\ es[i].score = k
                  /\ es[i].score <= Min2(Len(reads[es[i].a]), Len(reads[es[i].b]))
            /\ (reads = <<Read0, Read1, Read2>> /\ k = 3) => OvRaw(es, 1, 2) = 3

\* C3 reached: the scenario's reads with k = 3, read0,read1 recorded as 3
C3_Witness ==
    /\ KmerOverlapDone
    /\ reads = <<Read0, Read1, Read2>>
    /\ cfg.k = 3
    /\ OvHas(overlaps.es, 1, 2)
    /\ OvRaw(overlaps.es, 1, 2) = 3

\* C4: in the map any of the four overlap methods returns no key pairs a
\* read with itself, and a key "a,b" excludes the key "b,a" (and a second
\* "a,b")
C4_OneKeyPerPair ==
    (engine = "olc" /\ pc = "layout") =>
        LET es == overlaps.es
        IN  \A i \in 1..Len(es) :
                /\ es[i].a # es[i].b
                /\ ~OvHas(es, es[i].b, es[i].a)
                /\ \A j \in 1..Len(es) : (es[j].a = es[i].a /\ es[j].b = es[i].b) => i = j

\* C4 reached: an alignment method has scored all three pairs of three reads
C4_Witness ==
    /\ engine = "olc" /\ pc = "layout"
    /\ cfg.om \in {"sw", "nw"}
    /\ Len(reads) = 3
    /\ Len(overlaps.es) = 3

\* the (k-1)-prefix and the (k-1)-suffix of a k-mer
PrefixOf(kmer) == SubSeq(kmer, 1, Len(kmer) - 1)
SuffixOf(kmer) == SubSeq(kmer, 2, Len(kmer))

\* how many positions of the sequence s hold x
Count(s, x) == Cardinality({i \in 1..Len(s) : s[i] = x})

RECURSIVE SumCounts(_)
\* the sum of the counts of a Counter
SumCounts(c) == IF c = <<>> THEN 0 ELSE Head(c).count + SumCounts(Tail(c))

\* every node a k-mer list or a graph with its counters mentions
NodesOf(kmers, g, ind, outd) ==
    {PrefixOf(kmers[i]) : i \in 1..Len(kmers)} \cup {SuffixOf(kmers[i]) : i \in 1..Len(kmers)}
      \cup Range(GraphKeys(g)) \cup UNION {Range(g[i].succs) : i \in 1..Len(g)}
      \cup Range(CounterKeys(ind)) \cup Range(CounterKeys(outd))

\* the adjacency list of a node, empty for a node that is no key
Adjacent(g, u) == IF GraphHas(g, u) THEN GraphGet(g, u) ELSE <<>>

\* C5: right after buildDebruijnGraph every node's out-degree counter is the
\* number of surviving k-mers with that prefix and the length of its
\* adjacency list, its in-degree counter the number of surviving k-mers with
\* that suffix, and the out-degrees and the in-degrees each sum to the
\* number of surviving k-mers
C5_DegreesCountKmers ==
    (engine = "dbg" /\ pc = "built") =>
        /\ \A node \in NodesOf(goodKmers, graph, indegree, outdegree) :
              /\ CounterGet(outdegree, node)
                    = Cardinality({i \in 1..Len(goodKmers) : PrefixOf(goodKmers[i]) = node})
              /\ CounterGet(outdegree, node) = Len(Adjacent(graph, node))
              /\ CounterGet(indegree, node)
                    = Cardinality({i \in 1..Len(goodKmers) : SuffixOf(goodKmers[i]) = node})
        /\ SumCounts(outdegree) = Len(goodKmers)
        /\ SumCounts(indegree) = Len(goodKmers)

\* C5 reached: a graph built from at least three k-mers, one node with two
\* outgoing edges and one with two incoming
C5_Witness ==
    /\ engine = "dbg" /\ pc = "built"
    /\ Len(goodKmers) >= 3
    /\ \E i \in 1..Len(outdegree) : outdegree[i].count = 2
    /\ \E i \in 1..Len(indegree) : indegree[i].count = 2

\* the edges of a graph, one <<u, v>> per adjacency list position
EdgeSeq(g) == Flatten([i \in 1..Len(g) |-> [x \in 1..Len(g[i].succs) |-> <<g[i].node, g[i].succs[x]>>]])

\* the steps of a path
PathSteps(p) == [i \in 1..(Len(p) - 1) |-> <<p[i], p[i + 1]>>]

RECURSIVE Component(_, _)
\* the nodes joined to the set S by edges taken in either direction
Component(S, es) ==
    LET T == S \cup {e[2] : e \in {d \in es : d[1] \in S}}
               \cup {e[1] : e \in {d \in es : d[2] \in S}}
    IN  IF T = S THEN S ELSE Component(T, es)

\* a graph with at least one node, all of whose nodes are joined
Connected(g) ==
    LET nodes == Range(GraphKeys(g)) \cup UNION {Range(g[i].succs) : i \in 1..Len(g)}
    IN  /\ nodes # {}
        /\ \E u \in nodes : Component({u}, Range(EdgeSeq(g))) = nodes

\* the counters give each node's degrees in g
CountersMatch(g, ind, outd) ==
    \A u \in NodesOf(<<>>, g, ind, outd) :
        /\ CounterGet(outd, u) = Len(Adjacent(g, u))
        /\ CounterGet(ind, u) = Cardinality({i \in 1..Len(EdgeSeq(g)) : EdgeSeq(g)[i][2] = u})

\* every node balanced, or one node with one more edge out, one with one
\* more edge in, and the others balanced
Balanced(g, ind, outd) ==
    LET nodes == NodesOf(<<>>, g, ind, outd)
        diff(u) == CounterGet(outd, u) - CounterGet(ind, u)
    IN  \/ \A u \in nodes : diff(u) = 0
        \/ /\ Cardinality({u \in nodes : diff(u) = 1}) = 1
           /\ Cardinality({u \in nodes : diff(u) = -1}) = 1
           /\ \A u \in nodes : diff(u) \in {-1, 0, 1}

\* findEulerianPath has returned the path of the graph eg
EulerDone == engine = "dbg" /\ pc = "linearize"

\* C6: on a connected, balanced graph whose counters match its edges
\* findEulerianPath (either method) returns a path of edges + 1 nodes whose
\* steps are the edges of the graph, each taken exactly once
C6_EulerianPath ==
    (/\ EulerDone
     /\ Connected(eg)
     /\ CountersMatch(eg, indegree, outdegree)
     /\ Balanced(eg, indegree, outdegree)) =>
        /\ Len(path) = Len(EdgeSeq(eg)) + 1
        /\ \A e \in Range(EdgeSeq(eg)) \cup Range(PathSteps(path)) :
              Count(PathSteps(path), e) = Count(EdgeSeq(eg), e)

\* C6 reached: a path over four edges that passes its first node again in
\* the middle (two cycles through one node) and ends on it
C6_Witness ==
    /\ EulerDone
    /\ Connected(eg)
    /\ CountersMatch(eg, indegree, outdegree)
    /\ Balanced(eg, indegree, outdegree)
    /\ Len(path) = 5
    /\ path[3] = path[1]
    /\ path[5] = path[1]
    /\ path[2] # path[4]

\* C7 as stated: the sequence assembleGraph makes of the primary path is
\* empty for an empty path, the node itself for a one-node path, and
\* otherwise the first node followed by the last character of every later
\* node, len(path[0]) + len(path) - 1 characters in all
C7_PathToSequence ==
    (engine = "dbg" /\ pc = "alternates" /\ altIdx = 0) =>
        LET seq == assemblies[1]
        IN  /\ path = <<>> => seq = <<>>
            /\ Len(path) = 1 => seq = path[1]
            /\ Len(path) >= 1 =>
                  /\ Len(seq) = Len(path[1]) + Len(path) - 1
                  /\ SubSeq(seq, 1, Len(path[1])) = path[1]
                  /\ \A i \in 2..Len(path) :
                        /\ path[i] # <<>>
                        /\ seq[Len(path[1]) + i - 1] = Last(path[i])

\* C8: every item added to a BloomFilterImpl checks true, whatever was
\* added besides, and so in "bloom" mode every k-mer whose count reaches the
\* threshold is in the set filterErrors returns
C8_NoFalseNegatives ==
    /\ \A x \in added : BloomCheck(bloom, x)
    /\ (engine = "dbg" /\ pc = "filtered" /\ cfg.error_filter = "bloom") =>
          \A i \in 1..Len(counts) :
              counts[i].count >= OrElse(cfg.threshold, DefaultThreshold)
                => counts[i].key \in Range(goodKmers)

\* C8 reached: filterErrors in "bloom" mode added some k-mers but not all,
\* and the filter let a k-mer it was never given through as well
C8_Witness ==
    /\ engine = "dbg" /\ pc = "filtered" /\ cfg.error_filter = "bloom"
    /\ added # {}
    /\ \E i \in 1..Len(counts) : counts[i].count < OrElse(cfg.threshold, DefaultThreshold)
    /\ \E x \in Range(goodKmers) : x \notin added

\* the configurations whose method names the engines recognize
ValidOlcConfig ==
    /\ KnownOverlap(cfg.om)
    /\ cfg.lm \in {"greedy", "superstring"}
    /\ cfg.cm \in {"majority", "poa"}

ValidDbgConfig ==
    /\ cfg.error_filter \in {"threshold", "bloom"}
    /\ cfg.euler \in {"hierholzer", "recursive"}

\* C9 as stated: a run on an empty list of reads with recognized methods
\* ends by returning, and its assemblies are [""] or []
C9_EmptyReadsReturn ==
    (/\ reads = <<>>
     /\ pc \in {"done", "error"}
     /\ \/ engine = "olc" /\ ValidOlcConfig
        \/ engine = "dbg" /\ ValidDbgConfig) =>
        /\ pc = "done"
        /\ assemblies \in {<< <<>> >>, <<>>}

\* the method names of the configuration that the engine does not recognize
UnknownValues ==
    IF engine = "olc"
    THEN ({cfg.om} \ {"kmer", "minhash", "sw", "nw"})
           \cup ({cfg.lm} \ {"greedy", "superstring"})
           \cup ({cfg.cm} \ {"majority", "poa"})
    ELSE ({cfg.error_filter} \ {"threshold", "bloom"})
           \cup ({cfg.euler} \ {"hierholzer", "recursive"})

\* C10 as stated: a run whose configuration names an unrecognized method
\* ends in an error that names an unrecognized value, and returns nothing
C10_UnknownMethodFails ==
    (UnknownValues # {} /\ pc \in {"done", "error"}) =>
        /\ pc = "error"
        /\ error.value \in UnknownValues
        /\ assemblies = <<>>

\* every node of a graph: its keys and the successors they list
GraphNodes(g) == Range(GraphKeys(g)) \cup UNION {Range(g[i].succs) : i \in 1..Len(g)}

\* the run of the specification's first scenario: two reads, k = 3, the
\* threshold filter with threshold 1, a recognized Euler method
ScenarioDbgRun ==
    /\ engine = "dbg"
    /\ reads = <<Read0, Read1>>
    /\ cfg.k = 3 /\ cfg.error_filter = "threshold" /\ cfg.threshold = 1
    /\ cfg.euler \in {"hierholzer", "recursive"}

\* the length of the longest read
MaxReadLength == IF reads = <<>> THEN 0
                 ELSE CHOOSE n \in {Len(reads[i]) : i \in 1..Len(reads)} :
                        \A i \in 1..Len(reads) : Len(reads[i]) <= n

\* C11: in the scenario run every 3-mer of the reads survives the filter,
\* the graph (once built, and after tip removal) has as nodes exactly the
\* 2-mers that are prefix or suffix of a surviving 3-mer, and the primary
\* assembly is at least as long as the longest read, 6
C11_ScenarioGraphAndPrimary ==
    ScenarioDbgRun =>
        /\ pc \in {"built", "assemble", "euler", "linearize", "alternates", "done"} =>
              /\ Range(goodKmers) = Range(KmersOf(Read0, 3)) \cup Range(KmersOf(Read1, 3))
              /\ GraphNodes(graph)
                    = {PrefixOf(goodKmers[i]) : i \in 1..Len(goodKmers)}
                        \cup {SuffixOf(goodKmers[i]) : i \in 1..Len(goodKmers)}
        /\ pc \in {"alternates", "done"} =>
              /\ MaxReadLength = 6
              /\ Len(assemblies[1]) >= MaxReadLength

\* C11 reached: the scenario run has returned, its graph has the six
\* 2-mers as nodes and its primary assembly is ACTGACGT
C11_Witness ==
    /\ ScenarioDbgRun
    /\ pc = "done"
    /\ Cardinality(GraphNodes(graph)) = 6
    /\ assemblies[1] = <<"A", "C", "T", "G", "A", "C", "G", "T">>

\* runOlc has computed the overlap map with the Smith-Waterman method
SwOverlapDone == engine = "olc" /\ pc = "layout" /\ cfg.om = "sw"

\* the scoring parameters the Smith-Waterman method runs with
SwParams == AlignParams(cfg, DefaultSwMatch)

\* every cell of the matrix M
Cells(M) == {M[i][j] : i \in 1..Len(M), j \in 1..Len(M[1])}

\* C12: with match 2, mismatch -1, gap -1 the traced-back length recorded
\* for a non-empty read aligned with an equal read is the read's length
\* (the library records every length, its copy those above 5), "ACTG"
\* with "ACTG" gives 4, and no cell of a score matrix is negative
C12_SelfAlignmentLength ==
    SwOverlapDone =>
        \A a, b \in 1..Len(reads) :
            a < b =>
                /\ \A c \in Cells(SwMatrix(reads[a], reads[b], SwParams)) : c >= 0
                /\ (/\ SwParams = [match |-> 2, mismatch |-> -1, gap |-> -1]
                    /\ reads[a] = reads[b]
                    /\ reads[a] # <<>>) =>
                       /\ smithWaterman(reads[a], reads[b], SwParams).length = Len(reads[a])
                       /\ impl = "Lib" => OvHas(overlaps.es, a, b)
                       /\ Len(reads[a]) > SwKeepAbove => OvHas(overlaps.es, a, b)
                       /\ OvHas(overlaps.es, a, b) => OvRaw(overlaps.es, a, b) = Len(reads[a])

\* C12 reached: "ACTG" aligned with "ACTG" under the default parameters,
\* the recorded length 4
C12_Witness ==
    /\ SwOverlapDone
    /\ impl = "Lib"
    /\ reads = <<ReadActg, ReadActg>>
    /\ SwParams = [match |-> 2, mismatch |-> -1, gap |-> -1]
    /\ overlaps.es = <<[a |-> 1, b |-> 2, score |-> 4]>>

\* a is g with the first two successors of one branch node exchanged and
\* nothing else changed
AltOf(g, a) ==
    \E x \in 1..Len(g) :
        /\ g[x].node \in Range(branchNodes)
        /\ Len(g[x].succs) >= 2
        /\ Len(a) = Len(g)
        /\ \A i \in 1..Len(g) :
              /\ a[i].node = g[i].node
              /\ Len(a[i].succs) = Len(g[i].succs)
              /\ \A y \in 1..Len(g[i].succs) :
                    a[i].succs[y] = IF i = x /\ y = 1 THEN g[i].succs[2]
                                    ELSE IF i = x /\ y = 2 THEN g[i].succs[1]
                                    ELSE g[i].succs[y]

\* C13: from the first call of findEulerianPath on, no step of runDebruijn
\* changes the primary graph or a degree counter; a call of
\* findEulerianPath leaves the graph it was given as it was; and the graph
\* of every alternate is the primary graph with only the first two
\* successors of one branch node exchanged
C13_GraphUntouched ==
    [][(engine = "dbg" /\ pc \in {"assemble", "euler", "linearize", "alternates"}) =>
          /\ graph' = graph
          /\ indegree' = indegree
          /\ outdegree' = outdegree
          /\ pc \in {"assemble", "euler"} => eg' = eg
          /\ (pc = "alternates" /\ pc' = "assemble") => AltOf(graph, eg')]_vars

\* C13 reached: the second alternate's path has been found on a copy that
\* differs from the primary graph, whose lists are all still in place
C13_Witness ==
    /\ engine = "dbg" /\ pc = "linearize"
    /\ altIdx = 2
    /\ eg # graph
    /\ AltOf(graph, eg)
    /\ Len(path) >= 4
    /\ local # eg

RECURSIVE GreedyRun_Lib(_, _, _)
\* the order layoutGreedy (Lib) returns from the loop state st
GreedyRun_Lib(st, ov, overlapThreshold) ==
    IF st.unused = <<>> THEN st.order
    ELSE GreedyRun_Lib(GreedyStep_Lib(st, ov, overlapThreshold), ov, overlapThreshold)

RECURSIVE GreedyRun_Dbg(_, _, _)
\* the order layoutGreedy (Dbg) returns from the loop state st
GreedyRun_Dbg(st, es, n) ==
    IF Len(st.order) >= n THEN st.order
    ELSE GreedyRun_Dbg(GreedyStep_Dbg(st, es, n), es, n)

\* the layout order of a run of runOlc that returns, as a function of the
\* library copy, the reads, the configuration c and the overlap map ov
LayoutOf(im, rds, c, ov) ==
    IF c.lm = "greedy" THEN
        IF im = "Lib"
        THEN GreedyRun_Lib(GreedyInit_Lib(Len(rds)), ov,
                           OrElse(c.overlapThreshold, DefaultOverlapThreshold))
        ELSE LET es == GreedyEdges_Dbg(ov, OrElse(c.overlapThreshold, DefaultOverlapThreshold))
             IN  GreedyRun_Dbg(GreedyInit_Dbg(es), es, Len(rds))
    ELSE IF im = "Lib"
    THEN layoutSuperstring_Lib(rds, ov, OrElse(c.minOverlap, DefaultMinOverlap)).order
    ELSE layoutSuperstring_Dbg(rds, ov, OrElse(c.minOverlap, DefaultMinOverlap)).order

\* a returned run of runOlc holds at each stage what the stage computes
\* from the reads and the configuration c
OlcResultOf(c) ==
    /\ overlaps = ComputeOverlaps(impl, reads, c)
    /\ order = LayoutOf(impl, reads, c, overlaps)
    /\ assemblies[1] = assemble(order, reads, overlaps, c.cm).seq
    /\ branches = olcBranches(order, overlaps)

RECURSIVE EulerRun(_, _, _, _)
\* the path findEulerianPath returns from the traversal state
EulerRun(loc, stk, pth, method) ==
    IF stk = <<>> THEN Reverse(pth)
    ELSE LET u == Last(stk)
         IN  IF HasEdges(loc, u)
             THEN EulerRun(GraphSet(loc, u, RestAfterTake(method, GraphGet(loc, u))),
                           Append(stk, TakeNext(method, GraphGet(loc, u))), pth, method)
             ELSE EulerRun(loc, SubSeq(stk, 1, Len(stk) - 1), Append(pth, u), method)

\* the graph and counters runDebruijn assembles from
DbgGraphOf(rds, c) ==
    simplifyTips(buildDebruijnGraph(
        filterErrors(countKmers(rds, OrElse(c.k, DefaultK)), c.error_filter,
                     OrElse(c.threshold, DefaultThreshold))))

\* assemblies[0] and branches of a run of runDebruijn
DbgPrimaryOf(rds, c) ==
    LET G == DbgGraphOf(rds, c)
    IN  pathToSequence(
            IF G.graph = <<>> THEN <<>>
            ELSE EulerRun(G.graph, <<StartNode(G.graph, G.indegree, G.outdegree)>>,
                          <<>>, c.euler))

DbgBranchesOf(rds, c) ==
    [i \in 1..Len(BranchNodes(DbgGraphOf(rds, c).graph)) |-> <<i - 1, i - 1>>]

\* the configuration with detect_alternates switched off
WithoutAlts(c) == [c EXCEPT !.detectAlts = FALSE]

\* s is t, or t with entries added at its end
Extends(s, t) == Len(s) >= Len(t) /\ SubSeq(s, 1, Len(t)) = t

C15_AssembliesDistinct ==
    pc = "done" =>
        /\ assemblies # <<>>
        /\ engine = "dbg" => assemblies[1] = DbgPrimaryOf(reads, cfg)
        /\ \A i \in 2..Len(assemblies) : assemblies[i] \notin {<<>>, Undefined}
        /\ \A i, j \in 1..Len(assemblies) : assemblies[i] = assemblies[j] => i = j

\* the three candidate scores of the backtrace at cell (i, j)
SwCandidates(H, a, b, P, i, j) ==
    [diag |-> Cell(H, i - 1, j - 1) + (IF a[i] = b[j] THEN P.match ELSE P.mismatch),
     up   |-> Cell(H, i - 1, j) + P.gap,
     left |-> Cell(H, i, j - 1) + P.gap]

RECURSIVE SwVisited(_, _, _, _, _, _)
\* the cells at which the backtrace from (i, j) chooses a move
SwVisited(H, a, b, P, i, j) ==
    IF ~(i > 0 /\ j > 0 /\ Cell(H, i, j) > 0) THEN {}
    ELSE LET c    == SwCandidates(H, a, b, P, i, j)
             move == SwMove(c.diag, c.up, c.left)
         IN  {<<i, j>>} \cup
             (IF move = "diag" THEN SwVisited(H, a, b, P, i - 1, j - 1)
              ELSE IF move = "up" THEN SwVisited(H, a, b, P, i - 1, j)
              ELSE SwVisited(H, a, b, P, i, j - 1))

\* the move with the largest score, ties going to diagonal, then up, then left
DiagUpLeft(c) ==
    IF c.diag >= c.up /\ c.diag >= c.left THEN "diag"
    ELSE IF c.up >= c.left THEN "up"
    ELSE "left"

\* C16 as stated: at every cell of a Smith-Waterman backtrace the move
\* taken is the one with the largest score, and among equal largest scores
\* the diagonal is taken before up, and up before left
C16_TieBreakDiagUpLeft ==
    SwOverlapDone =>
        \A x, y \in 1..Len(reads) :
            x < y =>
                LET H   == SwMatrix(reads[x], reads[y], SwParams)
                    pos == SwMaxPos(H, Len(reads[x]), Len(reads[y]))
                IN  \A at \in SwVisited(H, reads[x], reads[y], SwParams, pos[1], pos[2]) :
                        LET c == SwCandidates(H, reads[x], reads[y], SwParams, at[1], at[2])
                        IN  SwMove(c.diag, c.up, c.left) = DiagUpLeft(c)

\* runOlc has computed the overlap map with the Needleman-Wunsch method
NwOverlapDone == engine = "olc" /\ pc = "layout" /\ cfg.om = "nw"

\* the scoring parameters the Needleman-Wunsch method runs with
NwParams == AlignParams(cfg, DefaultNwMatch)

\* C17 as stated: the global alignment matrix has first row and column the
\* multiples of the gap score, the map of overlapNw holds a pair exactly
\* when the matrix's bottom-right cell is strictly positive, the recorded
\* score is that cell, and so no recorded score is negative
C17_NwPositiveEntries ==
    NwOverlapDone =>
        /\ \A x, y \in 1..Len(reads) :
              x < y =>
                  LET F == NwMatrix(reads[x], reads[y], NwParams)
                  IN  /\ \A i \in 0..Len(reads[x]) : Cell(F, i, 0) = i * NwParams.gap
                      /\ \A j \in 0..Len(reads[y]) : Cell(F, 0, j) = j * NwParams.gap
                      /\ OvHas(overlaps.es, x, y) <=> Cell(F, Len(reads[x]), Len(reads[y])) > 0
                      /\ OvHas(overlaps.es, x, y) =>
                            OvRaw(overlaps.es, x, y) = Cell(F, Len(reads[x]), Len(reads[y]))
        /\ \A i \in 1..Len(overlaps.es) : overlaps.es[i].score >= 0

RECURSIVE MergedLength(_, _)
\* the length of the merged string of the ordering ord from its read i on:
\* the first read whole, each next read without its overlap-length prefix
MergedLength(ord, i) ==
    IF i > Len(ord) THEN 0
    ELSE (IF i = 1 THEN Len(reads[ord[1]])
          ELSE Len(SubstringFrom(reads[ord[i]],
                       OvLookup(overlaps.es, ord[i - 1], ord[i]) \div overlaps.den)))
         + MergedLength(ord, i + 1)

\* what layoutSuperstring is stated to return
StatedSuperstring(ord) ==
    IF \/ Len(reads) > SuperstringCutoff
       \/ \A p \in Orderings(Len(reads)) : ~ValidOrdering(p)
    THEN ord = <<>>
    ELSE /\ IsPermutation(ord, Len(reads))
         /\ ValidOrdering(ord)
         /\ \A p \in Orderings(Len(reads)) :
               ValidOrdering(p) => MergedLength(ord, 1) <= MergedLength(p, 1)

\* C18 as stated: every call of layoutSuperstring returns, and what it
\* returns is the empty layout when no ordering of the reads has all its
\* consecutive overlaps at the minimum or above (or there are more than 8
\* reads), and otherwise such an ordering of all the reads whose merged
\* string is no longer than that of any other such ordering
C18_SuperstringShortest ==
    [][(engine = "olc" /\ pc = "layout" /\ cfg.lm = "superstring") =>
          /\ pc' = "branches"
          /\ StatedSuperstring(order')]_vars

\* the read a step of layoutGreedy is stated to append to a chain ord
StatedGreedyNext(ord, next) ==
    LET t        == Last(ord)
        free     == {r \in 1..Len(reads) : r \notin Range(ord)}
        score(r) == OvLookup(overlaps.es, t, r)
        thr      == OrElse(cfg.overlapThreshold, DefaultOverlapThreshold) * overlaps.den
        cands    == {r \in free : score(r) > thr}
    IN  IF cands # {}
        THEN next \in cands /\ \A c \in cands : score(next) >= score(c)
        ELSE next \in free /\ \A r \in free : next <= r

\* C19 as stated: every step of layoutGreedy from a chain with tail t
\* appends one read: an unused read of the largest score with t among those
\* whose score (under either key order) strictly exceeds the threshold, or,
\* when no unused read's score exceeds it, the first unused read in
\* discovery order
C19_GreedyNextRead ==
    [][(engine = "olc" /\ pc = "greedy" /\ GreedyMore /\ order # <<>>) =>
          /\ Len(order') = Len(order) + 1
          /\ SubSeq(order', 1, Len(order)) = order
          /\ StatedGreedyNext(order, Last(order'))]_vars

\* the overlap pairs runOlc is stated to report: positive score, the two
\* reads next to each other in the layout in neither direction
StatedBranchPairs ==
    {x \in 1..Len(overlaps.es) :
        /\ overlaps.es[x].score > 0
        /\ ~\E p \in 1..(Len(order) - 1) :
              {order[p], order[p + 1]} = {overlaps.es[x].a, overlaps.es[x].b}
              /\ overlaps.es[x].a # overlaps.es[x].b}

\* C20 as stated: when runOlc returns, every entry of its branches is a
\* pair of valid 0-based indices into the layout order, and the list holds
\* exactly one entry (position of r1, position of r2) for each overlap pair of
\* positive score whose reads are not consecutive in the layout in either
\* direction, and nothing else
C20_BranchEntries ==
    (engine = "olc" /\ pc = "done") =>
        /\ \A y \in 1..Len(branches) :
              /\ branches[y][1] \in 0..(Len(order) - 1)
              /\ branches[y][2] \in 0..(Len(order) - 1)
        /\ Len(branches) = Cardinality(StatedBranchPairs)
        /\ \A x \in StatedBranchPairs :
              \E y \in 1..Len(branches) :
                  /\ order[branches[y][1] + 1] = overlaps.es[x].a
                  /\ order[branches[y][2] + 1] = overlaps.es[x].b

\* the nodes that are a pure source with a single outgoing edge
SourceTips(g, ind, outd) ==
    {u \in GraphNodes(g) : CounterGet(outd, u) = 1 /\ CounterGet(ind, u) = 0}

\* C21: simplifyTips empties the successor list of each node that had
\* out-degree 1 and in-degree 0 when the call began, takes one off that node's
\* out-degree and one off its successor's in-degree for each such node, and
\* leaves every other edge and counter as it was (one pass: a node that is
\* such a source only after the removals keeps its edge)
C21_SimplifyTipsOnePass ==
    [][(engine = "dbg" /\ pc = "built" /\ pc' = "assemble") =>
          LET tips == SourceTips(graph, indegree, outdegree)
          IN  /\ GraphKeys(graph') = GraphKeys(graph)
              /\ CounterKeys(indegree') = CounterKeys(indegree)
              /\ CounterKeys(outdegree') = CounterKeys(outdegree)
              /\ \A u \in tips : Len(GraphGet(graph, u)) = 1
              /\ \A u \in Range(GraphKeys(graph)) :
                    GraphGet(graph', u) = IF u \in tips THEN <<>> ELSE GraphGet(graph, u)
              /\ \A u \in GraphNodes(graph) :
                    /\ CounterGet(outdegree', u) =
                          CounterGet(outdegree, u) - (IF u \in tips THEN 1 ELSE 0)
                    /\ CounterGet(indegree', u) =
                          CounterGet(indegree, u)
                            - Cardinality({t \in tips : GraphGet(graph, t)[1] = u})]_vars

\* a pass has removed a tip and left a node that is now a source with one
\* outgoing edge, its edge still in place
C21_Witness ==
    /\ engine = "dbg" /\ pc = "assemble" /\ assemblies = <<>>
    /\ \E t \in Range(GraphKeys(graph)) :
          GraphGet(graph, t) = <<>> /\ CounterGet(indegree, t) = 0
    /\ \E u \in Range(GraphKeys(graph)) :
          /\ CounterGet(outdegree, u) = 1 /\ CounterGet(indegree, u) = 0
          /\ Len(GraphGet(graph, u)) = 1

RECURSIVE ReachFrom(_, _)
\* the nodes reached from the set S along edges
ReachFrom(S, es) ==
    LET T == S \cup {e[2] : e \in {d \in es : d[1] \in S}}
    IN  IF T = S THEN S ELSE ReachFrom(T, es)

RECURSIVE EulerLeft(_, _, _)
\* the working copy a traversal leaves behind
EulerLeft(loc, stk, method) ==
    IF stk = <<>> THEN loc
    ELSE LET u == Last(stk)
         IN  IF HasEdges(loc, u)
             THEN EulerLeft(GraphSet(loc, u, RestAfterTake(method, GraphGet(loc, u))),
                            Append(stk, TakeNext(method, GraphGet(loc, u))), method)
             ELSE EulerLeft(loc, SubSeq(stk, 1, Len(stk) - 1), method)

OtherMethod == IF cfg.euler = "hierholzer" THEN "recursive" ELSE "hierholzer"

\* C22: when findEulerianPath returns from a graph with a node, the other
\* method, given the same graph and counters, starts from the same node,
\* returns a path of the same number of nodes, and consumes the same edges:
\* every edge that can be reached from the start node, once
C22_MethodsEquivalent ==
    (EulerDone /\ GraphKeys(eg) # <<>>) =>
        LET start == StartNode(eg, indegree, outdegree)
            p2    == EulerRun(eg, <<start>>, <<>>, OtherMethod)
            reach == ReachFrom({start}, Range(EdgeSeq(eg)))
            taken == [i \in 1..Len(eg) |->
                         [node |-> eg[i].node,
                          succs |-> IF eg[i].node \in reach THEN <<>> ELSE eg[i].succs]]
        IN  /\ path[1] = start /\ p2[1] = start
            /\ Len(path) = Len(p2)
            /\ local = taken
            /\ EulerLeft(eg, <<start>>, OtherMethod) = taken
            /\ Len(path) = 1 + Len(EdgeSeq(eg)) - Len(EdgeSeq(taken))

\* the two methods return different paths of four or more nodes from a
\* graph that has an edge out of reach of the start node
C22_Witness ==
    /\ EulerDone /\ GraphKeys(eg) # <<>>
    /\ Len(path) >= 4
    /\ EulerRun(eg, <<StartNode(eg, indegree, outdegree)>>, <<>>, OtherMethod) # path
    /\ EdgeSeq(local) # <<>>

\* runDebruijn has simplified the graph and detected its branch nodes
DbgDetected ==
    engine = "dbg" /\ pc \in {"assemble", "euler", "linearize", "alternates", "done"}

\* C23: after tip simplification every node's adjacency list is as long as
\* its out-degree counter says, the detected branch nodes are exactly the
\* nodes whose out-degree counter is above 1, each listed once, and the
\* branches runDebruijn returns are [i, i] for i = 0..n-1, n the number of
\* branch nodes
C23_BranchNodesByOutdegree ==
    DbgDetected =>
        /\ \A u \in GraphNodes(graph) \cup Range(CounterKeys(outdegree)) :
              Len(Adjacent(graph, u)) = CounterGet(outdegree, u)
        /\ Range(branchNodes) =
              {u \in GraphNodes(graph) \cup Range(CounterKeys(outdegree)) :
                  CounterGet(outdegree, u) > 1}
        /\ \A i, j \in 1..Len(branchNodes) : branchNodes[i] = branchNodes[j] => i = j
        /\ pc = "done" =>
              /\ Len(branches) = Len(branchNodes)
              /\ \A i \in 1..Len(branches) : branches[i] = <<i - 1, i - 1>>

\* a run returns a branch from a graph in which a tip was removed
C23_Witness ==
    /\ engine = "dbg" /\ pc = "done"
    /\ Len(branches) >= 1
    /\ \E t \in Range(GraphKeys(graph)) :
          GraphGet(graph, t) = <<>> /\ CounterGet(indegree, t) = 0

\* the primary order with the two positions of branch b exchanged and every
\* other position as it is (a position outside the order names no element)
StatedAltOrder(b) ==
    LET at(x) == IF x = b[1] + 1 /\ b[2] + 1 \in 1..Len(order) THEN b[2] + 1
                 ELSE IF x = b[2] + 1 /\ b[1] + 1 \in 1..Len(order) THEN b[1] + 1
                 ELSE x
    IN  [x \in 1..Len(order) |-> order[at(x)]]

LongestCommonRun(a, b) ==
    LET runs == {n \in 0..Min2(Len(a), Len(b)) :
                    \E j \in 0..(Len(a) - n), k \in 0..(Len(b) - n) :
                        SubSeq(a, j + 1, j + n) = SubSeq(b, k + 1, k + n)}
    IN  CHOOSE n \in runs : \A m \in runs : m <= n

RECURSIVE StatedPoaFrom(_, _, _)
\* from the consensus cons and the i-th read of the order on, every read
\* whose longest common run with the consensus is shorter than the minimum
\* is appended whole, every other read is not, and the end is final
StatedPoaFrom(cons, i, final) ==
    IF i > Len(order) THEN cons = final
    ELSE LET rseq == reads[order[i]]
             next == PoaMerge(cons, rseq)
         IN  /\ (next = cons \o rseq) <=> (LongestCommonRun(cons, rseq) < PoaSearchRun)
             /\ StatedPoaFrom(next, i + 1, final)

\* runOlc has assembled its primary with the poa consensus
PoaPrimaryDone ==
    /\ engine = "olc" /\ pc = "alternates" /\ altIdx = 0
    /\ cfg.cm = "poa" /\ order # <<>>

\* C25 as stated: consensusPoa appends a read whole to the growing consensus
\* when the longest contiguous run the two have in common is shorter than
\* 10, and splices it in only when that run has length 10 or more
C25_PoaSplicesLongRuns ==
    PoaPrimaryDone => StatedPoaFrom(reads[order[1]], 2, assemblies[1])

\* the sequence assemble merges from an ordering of the reads, before the
\* consensus
SeedOf(ord) == AssembleSeq(reads[ord[1]], 1, ord, reads, overlaps)

\* runOlc has assembled its primary with the majority consensus
MajorityPrimaryDone ==
    /\ engine = "olc" /\ pc \in {"alternates", "done"}
    /\ cfg.cm = "majority"

\* C26: with the majority consensus the primary assembly is the merged seed
\* itself, and for the seed of every ordering of the reads consensusMajority
\* returns the seed unchanged: every vote at a column is the seed's base
\* there, and no column gets the letter N unless the seed has it
C26_MajorityReturnsSeed ==
    MajorityPrimaryDone =>
        /\ assemblies[1] = SeedOf(order)
        /\ \A ord \in Orderings(Len(reads)) :
              ord # <<>> =>
                LET seed == SeedOf(ord)
                IN  /\ consensusMajority(seed, reads) = seed
                    /\ \A col \in 1..Len(seed) :
                          \A v \in Range(ColumnVotes(seed, reads, col - 1)) : v = seed[col]

\* a returned majority consensus in which one read votes at its occurrence
\* past the start of the seed and another read does not occur at all
C26_Witness ==
    /\ engine = "olc" /\ pc = "done" /\ cfg.cm = "majority"
    /\ \E r \in 1..Len(reads) : reads[r] # <<>> /\ IndexOf(assemblies[1], reads[r]) > 0
    /\ \E r \in 1..Len(reads) : IndexOf(assemblies[1], reads[r]) = -1

\* runDebruijn has assembled its primary and nothing else yet
DbgPrimaryDone == engine = "dbg" /\ pc = "alternates" /\ altIdx = 0

\* C27 as stated: when the simplified graph of runDebruijn still has an
\* edge, the primary path starts at a node that has an outgoing edge, has at
\* least two nodes, and the primary assembly is longer than one (k-1)-mer
C27_StartHasEdge ==
    (DbgPrimaryDone /\ EdgeSeq(graph) # <<>>) =>
        /\ path # <<>>
        /\ HasEdges(graph, path[1])
        /\ Len(path) >= 2
        /\ Len(assemblies[1]) > OrElse(cfg.k, DefaultK) - 1

\* C28 as stated: every two consecutive nodes of a path findEulerianPath
\* returns (either method, any graph) are joined by an edge of the graph it
\* was given, from the first to the second
C28_PathStepsAreEdges ==
    EulerDone =>
        \A i \in 1..(Len(path) - 1) : <<path[i], path[i + 1]>> \in Range(EdgeSeq(eg))

\* the number of edges of the graph findEulerianPath was given
EdgeCount == Len(EdgeSeq(eg))

\* a step that consumes one remaining edge out of the top of the stack
ConsumesOneEdge ==
    LET u == Last(stack)
    IN  /\ Len(stack') = Len(stack) + 1
        /\ stack' = Append(stack, Last(stack'))
        /\ path' = path
        /\ GraphKeys(local') = GraphKeys(local)
        /\ \A w \in Range(GraphKeys(local)) : w # u => GraphGet(local', w) = GraphGet(local, w)
        /\ \/ GraphGet(local, u) = <<Last(stack')>> \o GraphGet(local', u)
           \/ GraphGet(local, u) = Append(GraphGet(local', u), Last(stack'))

\* a step that pops one node onto the path
PopsOneNode ==
    /\ local' = local
    /\ stack # <<>>
    /\ stack = Append(stack', Last(stack))
    /\ path' = Append(path, Last(stack))

\* C29: a call of findEulerianPath (either method; cycles, self-loops and
\* unbalanced graphs included) returns: every step of its traversal either
\* consumes one remaining edge of the working copy or pops one node, the
\* working copy only loses edges, the step count never passes
\* 2 * (number of edges) + 1, and the traversal leads to the return
C29_EulerTerminates ==
    /\ [][(engine = "dbg" /\ pc = "euler") =>
             /\ eg' = eg
             /\ IF pc' = "euler"
                THEN /\ steps' = steps + 1
                     /\ steps' <= 2 * EdgeCount + 1
                     /\ ConsumesOneEdge \/ PopsOneNode
                ELSE /\ pc' = "linearize"
                     /\ stack = <<>>
                     /\ steps' = steps /\ local' = local
                     /\ steps <= 2 * EdgeCount + 1]_vars
    /\ (pc = "euler") ~> (pc = "linearize")

\* a call has returned after 2 * edges + 1 steps from a graph of three or
\* more edges on which the path comes back to its first node
C29_Witness ==
    /\ EulerDone
    /\ EdgeCount >= 3
    /\ steps = 2 * EdgeCount + 1
    /\ \E i \in 2..Len(path) : path[i] = path[1]

\* the value a strategy is stated to use for parameter p: the configured
\* value when it was supplied, the default dflt when it was not
StatedParam(p, dflt) == IF p \in cfg.given THEN cfg[p] ELSE dflt

StatedAlignParams(dflt) ==
    [match |-> StatedParam("match", dflt), mismatch |-> StatedParam("mismatch", -1),
     gap |-> StatedParam("gap", -1)]

StatedOverlaps ==
    IF cfg.om = "kmer" THEN overlapKmer(reads, StatedParam("k", DefaultOverlapK))
    ELSE IF cfg.om = "sw" THEN
        IF impl = "Lib" THEN overlapSw_Lib(reads, StatedAlignParams(DefaultSwMatch))
        ELSE overlapSw_Dbg(reads, StatedAlignParams(DefaultSwMatch))
    ELSE IF impl = "Lib" THEN overlapNw_Lib(reads, StatedAlignParams(DefaultNwMatch))
    ELSE overlapNw_Dbg(reads, StatedAlignParams(DefaultNwMatch))

StatedLayout ==
    IF cfg.lm = "greedy" THEN
        IF impl = "Lib"
        THEN GreedyRun_Lib(GreedyInit_Lib(Len(reads)), overlaps,
                           StatedParam("overlapThreshold", DefaultOverlapThreshold))
        ELSE LET es == GreedyEdges_Dbg(overlaps,
                           StatedParam("overlapThreshold", DefaultOverlapThreshold))
             IN  GreedyRun_Dbg(GreedyInit_Dbg(es), es, Len(reads))
    ELSE IF impl = "Lib"
    THEN layoutSuperstring_Lib(reads, overlaps, StatedParam("minOverlap", DefaultMinOverlap)).order
    ELSE layoutSuperstring_Dbg(reads, overlaps, StatedParam("minOverlap", DefaultMinOverlap)).order

\* C30 as stated: every stage of a run computes what its strategy computes
\* from the supplied value of each numeric parameter, a supplied 0 included,
\* and from the default only for a parameter that was not supplied
C30_SuppliedParamsUsed ==
    /\ (engine = "olc" /\ pc \in {"layout", "greedy", "branches"}) =>
          overlaps = StatedOverlaps
    /\ (engine = "olc" /\ pc = "branches") => order = StatedLayout
    /\ (engine = "dbg" /\ pc \in {"counted", "filtered"}) =>
          counts = countKmers(reads, StatedParam("k", DefaultK))
    /\ (engine = "dbg" /\ pc = "filtered") =>
          goodKmers = filterErrors(counts, cfg.error_filter,
                                   StatedParam("threshold", DefaultThreshold))

====
